---- MODULE Spec2Model ----
(***************************************************************************)
(* Snipe analysis server: the checker pipeline (backend/analyzer), the     *)
(* in-memory repository index and its persisted snapshot                   *)
(* (backend/server.py, backend/parser/repo_parser.py).                     *)
(*                                                                         *)
(* Python's None is modelled as the empty tuple << >> and a present value  *)
(* v as the one-element tuple <<v>>, so Optional[int] and Optional[str]    *)
(* share one encoding.  Strings are real strings: prefix, suffix and       *)
(* formatting are computed character by character.                         *)
(***************************************************************************)
EXTENDS Integers, Sequences, FiniteSets, TLC

VARIABLES
    current_file,     \* request.file_path of the analyze under study
    buffer_refs,      \* list[Reference] of the buffer
    buffer_symbols,   \* list[Symbol] of the buffer
    repo_symbols,     \* list[dict]: the index handed to the checkers
    diagnostics,      \* list[Diagnostic] produced by the last operation
    phase,            \* "input" before the operation ran, "done" after
    buffer_tree,      \* syntax tree of request.content, where the parse is modelled
    _repo_path,       \* server.py module global: cached workspace root
    _repo_symbols,    \* server.py module global: cached symbol list
    symbols_file,     \* content of data/repo_symbols.json (None: no file yet)
    diagnostics_file, \* per workspace root: content of .snipe/diagnostics.json
    disk,             \* what a scan of each workspace root finds now
    last_op,          \* the last completed server operation and its outcome
    threads,          \* per request thread: program counter and locals
    requests          \* number of requests that have arrived

vars == <<current_file, buffer_refs, buffer_symbols, repo_symbols,
          diagnostics, phase, buffer_tree, _repo_path, _repo_symbols, symbols_file,
          diagnostics_file, disk, last_op, threads, requests>>

checkerVars == <<current_file, buffer_refs, buffer_symbols, repo_symbols,
                 diagnostics, phase, buffer_tree>>

serverVars == <<_repo_path, _repo_symbols, symbols_file, diagnostics_file, disk,
                last_op, threads, requests>>

-----------------------------------------------------------------------------
(* Optional values and small sequence helpers                              *)

None == << >>

Some(v) == <<v>>

IsNone(o) == o = << >>

Val(o) == o[1]

Range(s) == {s[i] : i \in 1..Len(s)}

RECURSIVE SeqsUpTo(_, _)
SeqsUpTo(S, n) ==
    IF n = 0 THEN {<< >>}
    ELSE LET shorter == SeqsUpTo(S, n - 1)
         IN  shorter \cup {Append(s, x) : s \in {t \in shorter : Len(t) = n - 1}, x \in S}

-----------------------------------------------------------------------------
(* Python string methods used by the checkers                              *)

StartsWith(s, p) == Len(s) >= Len(p) /\ SubSeq(s, 1, Len(p)) = p

EndsWith(s, p) == Len(s) >= Len(p) /\ SubSeq(s, Len(s) - Len(p) + 1, Len(s)) = p

Contains(s, ch) == \E i \in 1..Len(s) : SubSeq(s, i, i) = ch

\* int -> str as in an f-string (TLC's ToString prints decimal integers)
Str(n) == ToString(n)

\* str.replace("\\", "/")
RECURSIVE ReplaceBackslash(_)
ReplaceBackslash(s) ==
    IF Len(s) = 0 THEN ""
    ELSE (IF SubSeq(s, 1, 1) = "\\" THEN "/" ELSE SubSeq(s, 1, 1))
         \o ReplaceBackslash(SubSeq(s, 2, Len(s)))

UpperChars == "ABCDEFGHIJKLMNOPQRSTUVWXYZ"

LowerChars == "abcdefghijklmnopqrstuvwxyz"

LowerChar(c) ==
    IF \E i \in 1..26 : SubSeq(UpperChars, i, i) = c
    THEN LET i == CHOOSE j \in 1..26 : SubSeq(UpperChars, j, j) = c
         IN  SubSeq(LowerChars, i, i)
    ELSE c

\* str.lower()
RECURSIVE Lower(_)
Lower(s) ==
    IF Len(s) = 0 THEN "" ELSE LowerChar(SubSeq(s, 1, 1)) \o Lower(SubSeq(s, 2, Len(s)))

\* final path component: what follows the last "/" (pathlib's name)
PathName(p) ==
    LET slashes == {i \in 1..Len(p) : SubSeq(p, i, i) = "/"}
    IN  IF slashes = {} THEN p
        ELSE LET last == CHOOSE i \in slashes : \A j \in slashes : j <= i
             IN  SubSeq(p, last + 1, Len(p))

\* pathlib's Path(p).suffix: from the last "." of the name, unless the name
\* starts with that dot or ends with it
PathSuffix(p) ==
    LET name == PathName(p)
        dots == {i \in 1..Len(name) : SubSeq(name, i, i) = "."}
    IN  IF dots = {} THEN ""
        ELSE LET last == CHOOSE i \in dots : \A j \in dots : j <= i
             IN  IF last = 1 \/ last = Len(name) THEN ""
                 ELSE SubSeq(name, last, Len(name))

-----------------------------------------------------------------------------
(* Data model: parser/symbol_extractor.py and analyzer/type_checker.py     *)

\* Symbol (and its to_dict form, which the repo index holds)
Symbol(name, kind, type, file_path, line) ==
    [name |-> name, kind |-> kind, type |-> type, file_path |-> file_path,
     line |-> line, scope |-> "", array_size |-> None, params |-> << >>,
     return_type |-> None, is_variadic |-> FALSE, is_extern |-> FALSE,
     members |-> << >>]

\* Reference
Reference(name, kind, line) ==
    [name |-> name, kind |-> kind, inferred_type |-> None, line |-> line,
     index_value |-> None, arg_count |-> None, rhs_name |-> None,
     format_specifiers |-> None, imported_names |-> None,
     return_value_type |-> None, declared_return_type |-> None,
     scope |-> None, annotation_type |-> None, arg_types |-> None,
     member_name |-> None]

\* Diagnostic
Diagnostic(file, line, severity, code, message) ==
    [file |-> file, line |-> line, severity |-> severity, message |-> message,
     code |-> code]

\* a parameter record of a function Symbol
Param(name, type, has_default) ==
    [name |-> name, type |-> type, has_default |-> has_default]

\* Python dict as a function over its keys
EmptyDict == [k \in {} |-> None]

DictPut(d, k, v) == [x \in (DOMAIN d) \cup {k} |-> IF x = k THEN v ELSE d[x]]

DictGet(d, k) == IF k \in DOMAIN d THEN Some(d[k]) ELSE None

-----------------------------------------------------------------------------
(* Language dispatch and file identity                                     *)

\* type_checker._get_language_from_path (buffer_parser and
\* undefined_checker carry the same function)
_get_language_from_path(file_path) ==
    LET ext == Lower(PathSuffix(file_path))
    IN  IF ext \in {".c", ".h"} THEN Some("c")
        ELSE IF ext = ".py" THEN Some("python")
        ELSE None

\* bounds_checker._is_same_file / type_checker._is_same_file
_is_same_file(cur_file, repo_file_path) ==
    IF repo_file_path = "" THEN FALSE
    ELSE LET cur == ReplaceBackslash(cur_file)
             repo == ReplaceBackslash(repo_file_path)
         IN  cur = repo \/ EndsWith(cur, "/" \o repo)

-----------------------------------------------------------------------------
(* analyzer/bounds_checker.py                                              *)

\* the condition of line 56
IndexOutOfBounds_Mut(index_value, size) == index_value < 0 \/ index_value > size

IndexOutOfBounds(index_value, size) == index_value < 0 \/ index_value >= size

\* first loop of check_array_bounds: size_by_name, def_file and def_line
\* filled from the repo symbols of other files (a later entry overwrites)
RECURSIVE BoundsRepoLoop(_, _, _)
BoundsRepoLoop(repo, cur_file, size_by_name) ==
    IF repo = << >> THEN size_by_name
    ELSE LET s == Head(repo)
         IN  BoundsRepoLoop(Tail(repo), cur_file,
                IF IsNone(s.array_size) THEN size_by_name
                ELSE IF _is_same_file(cur_file, s.file_path) THEN size_by_name
                ELSE DictPut(size_by_name, s.name,
                        [size |-> Val(s.array_size), def_file |-> s.file_path,
                         def_line |-> s.line]))

\* second loop: buffer arrays fill only the names still missing
RECURSIVE BoundsBufferLoop(_, _, _)
BoundsBufferLoop(bsyms, cur_file, size_by_name) ==
    IF bsyms = << >> THEN size_by_name
    ELSE LET s == Head(bsyms)
         IN  BoundsBufferLoop(Tail(bsyms), cur_file,
                IF ~IsNone(s.array_size) /\ s.name \notin DOMAIN size_by_name
                THEN DictPut(size_by_name, s.name,
                        [size |-> Val(s.array_size),
                         def_file |-> IF s.file_path = "" THEN cur_file ELSE s.file_path,
                         def_line |-> s.line])
                ELSE size_by_name)

BoundsMessage(index_value, size, name, def_file, def_line) ==
    "Index " \o Str(index_value) \o " exceeds declared size " \o Str(size)
    \o " for '" \o name \o "' (declared in " \o def_file \o ":" \o Str(def_line) \o ")."

\* third loop: one diagnostic per out-of-range literal access
RECURSIVE BoundsRefLoop(_, _, _)
BoundsRefLoop(refs, cur_file, size_by_name) ==
    IF refs = << >> THEN << >>
    ELSE LET ref == Head(refs)
             rest == BoundsRefLoop(Tail(refs), cur_file, size_by_name)
         IN  IF ref.kind # "array_access" \/ IsNone(ref.index_value) THEN rest
             ELSE IF ref.name \notin DOMAIN size_by_name THEN rest
             ELSE LET e == size_by_name[ref.name]
                  IN  IF IndexOutOfBounds(Val(ref.index_value), e.size)
                      THEN <<Diagnostic(cur_file, ref.line, "ERROR", "SNIPE_ARRAY_BOUNDS",
                                BoundsMessage(Val(ref.index_value), e.size, ref.name,
                                              e.def_file, e.def_line))>> \o rest
                      ELSE rest

check_array_bounds(refs, bsyms, repo, cur_file) ==
    BoundsRefLoop(refs, cur_file,
        BoundsBufferLoop(bsyms, cur_file, BoundsRepoLoop(repo, cur_file, EmptyDict)))

-----------------------------------------------------------------------------
(* analyzer/signature_checker.py                                           *)

\* funcs: repo functions by name; the first entry of a name stays unless a
\* later one lies in the current file
RECURSIVE SigFuncsLoop(_, _, _)
SigFuncsLoop(repo, cur_file, funcs) ==
    IF repo = << >> THEN funcs
    ELSE LET s == Head(repo)
         IN  SigFuncsLoop(Tail(repo), cur_file,
                IF s.kind # "function" THEN funcs
                ELSE IF s.name = "" THEN funcs
                ELSE IF s.name \notin DOMAIN funcs \/ s.file_path = cur_file
                     THEN DictPut(funcs, s.name, s)
                     ELSE funcs)

IsRegularParam(p) == ~StartsWith(p.name, "*")

\* regular_params: *args / **kwargs are filtered out before counting
RegularParams_Mut(params) == params

RegularParams(params) == SelectSeq(params, IsRegularParam)

HasNoDefault(p) == ~p.has_default

MinArgs(params) == Len(SelectSeq(RegularParams(params), HasNoDefault))

MaxArgs(params) == Len(RegularParams(params))

\* the condition of line 45, max_args being float("inf") for a variadic
ArgCountDrifts_Mut(arg_count, min_args, max_args, is_variadic) ==
    arg_count < min_args \/ arg_count > max_args

ArgCountDrifts(arg_count, min_args, max_args, is_variadic) ==
    arg_count < min_args \/ (~is_variadic /\ arg_count > max_args)

ExpectedStr(min_args, max_args, is_variadic) ==
    IF is_variadic THEN "at least " \o Str(min_args)
    ELSE IF min_args = max_args THEN Str(min_args)
    ELSE Str(min_args) \o " to " \o Str(max_args)

SignatureMessage(name, expected_str, arg_count, def_file, def_line) ==
    "Function '" \o name \o "' expects " \o expected_str \o " argument(s) but "
    \o Str(arg_count) \o " provided (see " \o def_file \o ":" \o Str(def_line) \o ")."

RECURSIVE SigRefLoop(_, _, _)
SigRefLoop(refs, cur_file, funcs) ==
    IF refs = << >> THEN << >>
    ELSE LET ref == Head(refs)
             rest == SigRefLoop(Tail(refs), cur_file, funcs)
         IN  IF ref.kind # "call" \/ IsNone(ref.arg_count) THEN rest
             ELSE IF ref.name \notin DOMAIN funcs THEN rest
             ELSE LET repo_def == funcs[ref.name]
                      min_args == MinArgs(repo_def.params)
                      max_args == MaxArgs(repo_def.params)
                  IN  IF ArgCountDrifts(Val(ref.arg_count), min_args, max_args,
                                        repo_def.is_variadic)
                      THEN <<Diagnostic(cur_file, ref.line, "ERROR", "SNIPE_SIGNATURE_DRIFT",
                                SignatureMessage(ref.name,
                                    ExpectedStr(min_args, max_args, repo_def.is_variadic),
                                    Val(ref.arg_count), repo_def.file_path, repo_def.line))>>
                           \o rest
                      ELSE rest

check_function_signatures(refs, repo, cur_file) ==
    SigRefLoop(refs, cur_file, SigFuncsLoop(repo, cur_file, EmptyDict))

-----------------------------------------------------------------------------
(* analyzer/type_checker.py                                                *)

IsSpace(c) == c \in {" ", "\t", "\n", "\r"}

RECURSIVE LStrip(_)
LStrip(s) ==
    IF Len(s) > 0 /\ IsSpace(SubSeq(s, 1, 1)) THEN LStrip(SubSeq(s, 2, Len(s))) ELSE s

RECURSIVE RStrip(_)
RStrip(s) ==
    IF Len(s) > 0 /\ IsSpace(SubSeq(s, Len(s), Len(s)))
    THEN RStrip(SubSeq(s, 1, Len(s) - 1)) ELSE s

\* str.strip()
Strip(s) == LStrip(RStrip(s))

\* truthiness of an Optional[str]: None and "" are both false
Truthy(o) == ~IsNone(o) /\ Val(o) # ""

\* Python's `a or b` on Optional[str] operands
OrElse(a, b) == IF Truthy(a) THEN a ELSE b

\* `x.get("type") or x.get("kind") or ""` (kind is always a string)
TypeOrKind(s) == Val(OrElse(OrElse(s.type, Some(s.kind)), Some("")))

\* local_types, step 1: {s.name: s.type for s in buffer_symbols if s.type is not None}
RECURSIVE LocalTypesTyped(_, _)
LocalTypesTyped(bsyms, d) ==
    IF bsyms = << >> THEN d
    ELSE LET s == Head(bsyms)
         IN  LocalTypesTyped(Tail(bsyms),
                IF ~IsNone(s.type) THEN DictPut(d, s.name, Val(s.type)) ELSE d)

\* local_types, step 2: update() with (s.name, s.kind) for the names not yet
\* present; the generator is consumed lazily, so the first entry wins
RECURSIVE LocalTypesKinds(_, _)
LocalTypesKinds(bsyms, d) ==
    IF bsyms = << >> THEN d
    ELSE LET s == Head(bsyms)
         IN  LocalTypesKinds(Tail(bsyms),
                IF s.name \notin DOMAIN d THEN DictPut(d, s.name, s.kind) ELSE d)

LocalTypes(bsyms) == LocalTypesKinds(bsyms, LocalTypesTyped(bsyms, EmptyDict))

\* repo_by_name: other files of the same language; a definition overrides
\* an extern entry already stored, otherwise the first entry stays
RECURSIVE RepoByNameLoop(_, _, _)
RepoByNameLoop(repo, cur_file, d) ==
    IF repo = << >> THEN d
    ELSE LET s == Head(repo)
         IN  RepoByNameLoop(Tail(repo), cur_file,
                IF _is_same_file(cur_file, s.file_path) THEN d
                ELSE IF _get_language_from_path(s.file_path)
                        # _get_language_from_path(cur_file) THEN d
                ELSE IF s.name = "" THEN d
                ELSE IF s.name \notin DOMAIN d THEN DictPut(d, s.name, s)
                ELSE IF d[s.name].is_extern /\ ~s.is_extern THEN DictPut(d, s.name, s)
                ELSE d)

\* lines 72-73 left out: the first entry of a name stays, extern or not
RepoByName_Mut(repo, cur_file) ==
    LET d == RepoByNameLoop(repo, cur_file, EmptyDict)
        Kept(i, n) == /\ repo[i].name = n
                      /\ ~_is_same_file(cur_file, repo[i].file_path)
                      /\ _get_language_from_path(repo[i].file_path)
                            = _get_language_from_path(cur_file)
    IN  [n \in DOMAIN d |->
            repo[CHOOSE i \in DOMAIN repo :
                    Kept(i, n) /\ \A j \in 1..(i - 1) : ~Kept(j, n)]]

RepoByName(repo, cur_file) == RepoByNameLoop(repo, cur_file, EmptyDict)

DeclTypeMessage(name, repo_type, def_file, def_line, buf_type) ==
    "'" \o name \o "' is declared as " \o repo_type \o " in " \o def_file \o ":"
    \o Str(def_line) \o " but declared as " \o buf_type \o " here."

DeclSizeMessage(name, buf_size, repo_size, def_file, def_line) ==
    "'" \o name \o "' declares size " \o Str(buf_size) \o " but actual size is "
    \o Str(repo_size) \o " (in " \o def_file \o ":" \o Str(def_line) \o ")."

\* line 86 comparing the kinds of the two symbols
DeclTypeMismatch_Mut(sym, repo_def) == sym.kind # repo_def.kind

\* the two flags of an extern buffer declaration against its repo definition
DeclTypeMismatch(sym, repo_def) ==
    LET repo_type == Strip(TypeOrKind(repo_def))
        buf_type == Strip(TypeOrKind(sym))
    IN  buf_type # "" /\ repo_type # "" /\ buf_type # repo_type

\* line 94 comparing with >= : an extern of the definition's own size is flagged
DeclSizeMismatch_Mut(sym, repo_def) ==
    /\ ~IsNone(sym.array_size)
    /\ ~IsNone(repo_def.array_size)
    /\ Val(sym.array_size) >= Val(repo_def.array_size)

DeclSizeMismatch(sym, repo_def) ==
    /\ ~IsNone(sym.array_size)
    /\ ~IsNone(repo_def.array_size)
    /\ Val(sym.array_size) > Val(repo_def.array_size)

\* 1. buffer extern declarations against the repo definitions
RECURSIVE DeclLoop(_, _, _)
DeclLoop(bsyms, cur_file, repo_by_name) ==
    IF bsyms = << >> THEN << >>
    ELSE LET sym == Head(bsyms)
             rest == DeclLoop(Tail(bsyms), cur_file, repo_by_name)
         IN  IF ~sym.is_extern THEN rest
             ELSE IF sym.name \notin DOMAIN repo_by_name THEN rest
             ELSE LET repo_def == repo_by_name[sym.name]
                  IN  (IF DeclTypeMismatch(sym, repo_def)
                       THEN <<Diagnostic(cur_file, sym.line, "ERROR", "SNIPE_TYPE_MISMATCH",
                                 DeclTypeMessage(sym.name, Strip(TypeOrKind(repo_def)),
                                     repo_def.file_path, repo_def.line,
                                     Strip(TypeOrKind(sym))))>>
                       ELSE << >>)
                      \o (IF DeclSizeMismatch(sym, repo_def)
                          THEN <<Diagnostic(cur_file, sym.line, "ERROR", "SNIPE_ARRAY_BOUNDS",
                                    DeclSizeMessage(sym.name, Val(sym.array_size),
                                        Val(repo_def.array_size), repo_def.file_path,
                                        repo_def.line))>>
                          ELSE << >>)
                      \o rest

\* declaration_mismatch_names
DeclarationMismatchNames(bsyms, repo_by_name) ==
    {sym.name : sym \in {b \in Range(bsyms) :
        /\ b.is_extern
        /\ b.name \in DOMAIN repo_by_name
        /\ DeclTypeMismatch(b, repo_by_name[b.name])}}

\* buffer_symbols_by_name = {s.name: s for s in buffer_symbols}: the last wins
RECURSIVE BufferSymbolsByName(_, _)
BufferSymbolsByName(bsyms, d) ==
    IF bsyms = << >> THEN d
    ELSE BufferSymbolsByName(Tail(bsyms), DictPut(d, Head(bsyms).name, Head(bsyms)))

WriteMessage(rhs_type, name, elem_type, elem_file, elem_line) ==
    "Assigning " \o rhs_type \o " to '" \o name \o "' (element type " \o elem_type
    \o " in " \o elem_file \o ":" \o Str(elem_line) \o ")."

\* 2. array_write references: type of the assigned value against the element type
RECURSIVE WriteLoop(_, _, _, _, _)
WriteLoop(refs, cur_file, local_types, by_name, repo_by_name) ==
    IF refs = << >> THEN << >>
    ELSE LET ref == Head(refs)
             rest == WriteLoop(Tail(refs), cur_file, local_types, by_name, repo_by_name)
             rhs_type == OrElse(ref.inferred_type,
                                IF Truthy(ref.rhs_name)
                                THEN DictGet(local_types, Val(ref.rhs_name)) ELSE None)
             elem == IF ref.name \in DOMAIN by_name /\ Truthy(by_name[ref.name].type)
                     THEN [type |-> Strip(Val(by_name[ref.name].type)),
                           file |-> cur_file, line |-> by_name[ref.name].line]
                     ELSE IF ref.name \in DOMAIN repo_by_name
                     THEN [type |-> Strip(TypeOrKind(repo_by_name[ref.name])),
                           file |-> repo_by_name[ref.name].file_path,
                           line |-> repo_by_name[ref.name].line]
                     ELSE [type |-> "", file |-> cur_file, line |-> 0]
         IN  IF ref.kind # "array_write" THEN rest
             ELSE IF ~Truthy(rhs_type) THEN rest
             ELSE IF elem.type # "" /\ elem.type # Val(rhs_type)
                  THEN <<Diagnostic(cur_file, ref.line, "ERROR", "SNIPE_TYPE_MISMATCH",
                            WriteMessage(Val(rhs_type), ref.name, elem.type, elem.file,
                                         elem.line))>> \o rest
                  ELSE rest

UseMessage(name, repo_type, def_file, def_line, ref_type) ==
    "'" \o name \o "' is declared as " \o repo_type \o " in " \o def_file \o ":"
    \o Str(def_line) \o " but used as " \o ref_type \o " here."

\* 3. read and array_access references against the repo definitions
RECURSIVE UseLoop(_, _, _, _, _)
UseLoop(refs, cur_file, local_types, mismatch_names, repo_by_name) ==
    IF refs = << >> THEN << >>
    ELSE LET ref == Head(refs)
             rest == UseLoop(Tail(refs), cur_file, local_types, mismatch_names, repo_by_name)
         IN  IF ref.kind \notin {"read", "array_access"} THEN rest
             ELSE IF ref.name \in mismatch_names THEN rest
             ELSE IF ref.name \notin DOMAIN repo_by_name THEN rest
             ELSE IF repo_by_name[ref.name].is_extern THEN rest
             ELSE LET repo_def == repo_by_name[ref.name]
                      repo_type == TypeOrKind(repo_def)
                      ref_type == OrElse(ref.inferred_type, DictGet(local_types, ref.name))
                  IN  IF Truthy(ref_type) /\ repo_type # ""
                         /\ Strip(Val(ref_type)) # Strip(repo_type)
                      THEN <<Diagnostic(cur_file, ref.line, "ERROR", "SNIPE_TYPE_MISMATCH",
                                UseMessage(ref.name, repo_type, repo_def.file_path,
                                           repo_def.line, Val(ref_type)))>> \o rest
                      ELSE rest

check_type_mismatch(refs, bsyms, repo, cur_file) ==
    IF IsNone(_get_language_from_path(cur_file)) THEN << >>
    ELSE LET local_types == LocalTypes(bsyms)
             repo_by_name == RepoByName(repo, cur_file)
         IN  DeclLoop(bsyms, cur_file, repo_by_name)
             \o WriteLoop(refs, cur_file, local_types,
                          BufferSymbolsByName(bsyms, EmptyDict), repo_by_name)
             \o UseLoop(refs, cur_file, local_types,
                        DeclarationMismatchNames(bsyms, repo_by_name), repo_by_name)

-----------------------------------------------------------------------------
(* Name tables of analyzer/undefined_checker.py                            *)

PYTHON_BUILTINS ==
    {"Any", "ArithmeticError", "AssertionError", "AttributeError",
     "BaseException", "BlockingIOError", "BrokenPipeError", "BytesWarning",
     "Callable", "ChildProcessError", "ConnectionAbortedError",
     "ConnectionError", "ConnectionRefusedError", "ConnectionResetError",
     "DeprecationWarning", "Dict", "Ellipsis", "Exception", "False",
     "FileExistsError", "FileNotFoundError", "FloatingPointError",
     "FutureWarning", "Generator", "GeneratorExit", "Generic", "IOError",
     "ImportError", "ImportWarning", "IndentationError", "IndexError",
     "InterruptedError", "IsADirectoryError", "Iterable", "Iterator",
     "KeyError", "KeyboardInterrupt", "List", "LookupError", "Mapping",
     "ModuleNotFoundError", "MutableMapping", "NameError", "None",
     "NotADirectoryError", "NotImplemented", "NotImplementedError", "OSError",
     "Optional", "OverflowError", "PendingDeprecationWarning",
     "PermissionError", "ProcessLookupError", "Protocol", "RecursionError",
     "ResourceWarning", "RuntimeError", "RuntimeWarning", "Sequence", "Set",
     "StopAsyncIteration", "StopIteration", "SyntaxError", "SyntaxWarning",
     "SystemError", "SystemExit", "TabError", "TimeoutError", "True", "Tuple",
     "TypeError", "TypeVar", "UnboundLocalError", "UnicodeDecodeError",
     "UnicodeEncodeError", "UnicodeError", "UnicodeTranslateError",
     "UnicodeWarning", "Union", "UserWarning", "ValueError", "Warning",
     "ZeroDivisionError", "__builtins__", "__doc__", "__file__", "__import__",
     "__loader__", "__name__", "__package__", "__spec__", "abs",
     "abstractmethod", "all", "any", "ascii", "bin", "bool", "breakpoint",
     "bytearray", "bytes", "callable", "chr", "classmethod", "compile",
     "complex", "copyright", "credits", "dataclass", "delattr", "dict", "dir",
     "divmod", "enumerate", "eval", "exec", "exit", "field", "filter",
     "float", "format", "frozenset", "getattr", "globals", "hasattr", "hash",
     "help", "hex", "id", "input", "int", "isinstance", "issubclass", "iter",
     "len", "license", "list", "locals", "map", "max", "memoryview", "min",
     "next", "object", "oct", "open", "ord", "override", "pow", "print",
     "property", "quit", "range", "repr", "reversed", "round", "set",
     "setattr", "slice", "sorted", "staticmethod", "str", "sum", "super",
     "tuple", "type", "vars", "zip"}

PYTHON_COMMON_GLOBALS ==
    {"__all__", "__author__", "__doc__", "__file__", "__name__",
     "__package__", "__version__", "cls", "self"}

C_STDLIB_FUNCTIONS ==
    {"EOF", "NULL", "_exit", "abort", "abs", "alloca", "asctime", "asctime_r",
     "assert", "at_quick_exit", "atexit", "atof", "atoi", "atol", "atoll",
     "bcopy", "bsearch", "bzero", "calloc", "clearerr", "clock", "close",
     "ctime", "ctime_r", "difftime", "div", "drand48", "dup", "dup2", "execl",
     "execle", "execlp", "execv", "execve", "execvp", "exit", "fclose",
     "feof", "ferror", "fflush", "fgetc", "fgets", "fopen", "fork", "fprintf",
     "fputc", "fputs", "fread", "free", "freopen", "fscanf", "fseek", "ftell",
     "fwrite", "getc", "getchar", "getenv", "geteuid", "getlogin", "getpwuid",
     "gets", "gets_s", "getuid", "gmtime", "gmtime_r", "ioctl", "isalnum",
     "isalpha", "iscntrl", "isdigit", "isgraph", "islower", "isprint",
     "ispunct", "isspace", "isupper", "isxdigit", "kill", "labs", "ldiv",
     "llabs", "lldiv", "localtime", "localtime_r", "lseek", "main", "malloc",
     "memchr", "memcmp", "memcpy", "memmove", "memset", "mkdtemp", "mkstemp",
     "mktime", "nanosleep", "offsetof", "open", "pclose", "perror", "pipe",
     "poll", "popen", "printf", "putc", "putchar", "puts", "qsort",
     "quick_exit", "raise", "rand", "random", "read", "realloc", "rewind",
     "scanf", "secure_getenv", "select", "setbuf", "setvbuf", "sigaction",
     "signal", "sizeof", "sleep", "snprintf", "sprintf", "srand", "srand48",
     "srandom", "sscanf", "stpcpy", "strcat", "strchr", "strcmp", "strcpy",
     "strdup", "strftime", "strlcat", "strlcpy", "strlen", "strncat",
     "strncmp", "strncpy", "strndup", "strrchr", "strstr", "strtod", "strtof",
     "strtok", "strtok_r", "strtol", "strtold", "strtoll", "strtoul",
     "strtoull", "system", "tempnam", "time", "tmpfile", "tmpnam", "tolower",
     "toupper", "ungetc", "usleep", "va_arg", "va_copy", "va_end", "va_start",
     "vfork", "vfscanf", "vscanf", "vsnprintf", "vsprintf", "vsscanf", "wait",
     "waitpid", "write"}

-----------------------------------------------------------------------------
(* Function tables of analyzer/safety_checker.py.  The em dash of the      *)
(* source texts is written "--".                                            *)

REMOVED_FUNCTIONS ==
       ("gets" :> [category |-> "Removed from C Standard (C11+)",
            reason |-> "Removed in C11 -- no bounds checking, guaranteed buffer overflow risk",
            suggestion |-> "Use fgets(buf, size, stdin) instead"])

UNSAFE_FUNCTIONS ==
       ("strcpy" :> [category |-> "Unsafe String Handling",
            reason |-> "No bounds checking -- writes past buffer if source is longer than destination",
            suggestion |-> "Use strncpy() or strlcpy() instead"])
      @@ ("strcat" :> [category |-> "Unsafe String Handling",
            reason |-> "No bounds checking -- concatenation can overflow destination buffer",
            suggestion |-> "Use strncat() or strlcat() instead"])
      @@ ("stpcpy" :> [category |-> "Unsafe String Handling",
            reason |-> "No bounds checking -- same risks as strcpy()",
            suggestion |-> "Use strncpy() or strlcpy() instead"])
      @@ ("gets_s" :> [category |-> "Unsafe String Handling",
            reason |-> "Annex K optional function -- not widely supported, still risky",
            suggestion |-> "Use fgets(buf, size, stdin) instead"])
      @@ ("strtok" :> [category |-> "Unsafe String Handling",
            reason |-> "Uses internal static state -- not thread-safe, modifies input string",
            suggestion |-> "Use strtok_r() (POSIX) or manual parsing instead"])
      @@ ("strncpy" :> [category |-> "Unsafe String Handling",
            reason |-> "Does not guarantee null-termination if source >= n bytes",
            suggestion |-> "Use strlcpy() or manually null-terminate after strncpy()"])
      @@ ("strncat" :> [category |-> "Unsafe String Handling",
            reason |-> "Easy to misuse -- size parameter is remaining space, not total buffer size",
            suggestion |-> "Use strlcat() or compute remaining size carefully"])
      @@ ("strdup" :> [category |-> "Unsafe String Handling",
            reason |-> "No input length limit -- untrusted input can cause memory exhaustion",
            suggestion |-> "Use strndup() with a max length, or validate input size first"])
      @@ ("sprintf" :> [category |-> "Unsafe Formatted Output",
            reason |-> "No bounds checking -- format output can overflow destination buffer",
            suggestion |-> "Use snprintf(buf, size, fmt, ...) instead"])
      @@ ("vsprintf" :> [category |-> "Unsafe Formatted Output",
            reason |-> "No bounds checking -- variadic format output can overflow buffer",
            suggestion |-> "Use vsnprintf(buf, size, fmt, ap) instead"])
      @@ ("scanf" :> [category |-> "Potentially Unsafe Input",
            reason |-> "Without field width limits, %s can overflow buffers",
            suggestion |-> "Use fgets() + sscanf(), or limit field width (e.g. %99s)"])
      @@ ("fscanf" :> [category |-> "Potentially Unsafe Input",
            reason |-> "Without field width limits, %s can overflow buffers",
            suggestion |-> "Use fgets() + sscanf() with bounded format specifiers"])
      @@ ("sscanf" :> [category |-> "Potentially Unsafe Input",
            reason |-> "Without field width limits, %s can overflow buffers",
            suggestion |-> "Limit field width in format specifiers (e.g. %99s)"])
      @@ ("vscanf" :> [category |-> "Potentially Unsafe Input",
            reason |-> "Variadic version of scanf -- same overflow risks without width limits",
            suggestion |-> "Use fgets() + vsscanf() with bounded format specifiers"])
      @@ ("vfscanf" :> [category |-> "Potentially Unsafe Input",
            reason |-> "Variadic version of fscanf -- same overflow risks without width limits",
            suggestion |-> "Use fgets() + vsscanf() with bounded format specifiers"])
      @@ ("vsscanf" :> [category |-> "Potentially Unsafe Input",
            reason |-> "Variadic version of sscanf -- same overflow risks without width limits",
            suggestion |-> "Limit field width in format specifiers (e.g. %99s)"])
      @@ ("tmpnam" :> [category |-> "Temporary File (Race Condition Risk)",
            reason |-> "Race condition between name generation and file creation (TOCTOU)",
            suggestion |-> "Use mkstemp() or tmpfile() instead"])
      @@ ("tempnam" :> [category |-> "Temporary File (Race Condition Risk)",
            reason |-> "Race condition between name generation and file creation (TOCTOU)",
            suggestion |-> "Use mkstemp() or tmpfile() instead"])
      @@ ("tmpfile" :> [category |-> "Temporary File (Race Condition Risk)",
            reason |-> "Less risky than tmpnam() but still implementation-sensitive",
            suggestion |-> "Use mkstemp() for full control over temp file creation"])
      @@ ("getenv" :> [category |-> "Memory / Environment Risk",
            reason |-> "Returns pointer to environment which can be attacker-controlled or modified",
            suggestion |-> "Use secure_getenv() (glibc) or validate/sanitize the returned value"])
      @@ ("alloca" :> [category |-> "Memory Risk",
            reason |-> "Allocates on the stack -- no failure indication, stack overflow risk",
            suggestion |-> "Use malloc() / calloc() with proper size checks instead"])
      @@ ("rand" :> [category |-> "Weak Random Number Generation",
            reason |-> "Predictable PRNG -- not suitable for security-sensitive contexts",
            suggestion |-> "Use arc4random(), getrandom(), or /dev/urandom for secure randomness"])
      @@ ("srand" :> [category |-> "Weak Random Number Generation",
            reason |-> "Seeds the predictable rand() PRNG -- not cryptographically secure",
            suggestion |-> "Use arc4random() or getrandom() which don't need manual seeding"])
      @@ ("random" :> [category |-> "Weak Random Number Generation",
            reason |-> "Better than rand() but still not cryptographically secure",
            suggestion |-> "Use arc4random() or getrandom() for security-sensitive contexts"])
      @@ ("drand48" :> [category |-> "Weak Random Number Generation",
            reason |-> "Predictable PRNG -- not suitable for security-sensitive contexts",
            suggestion |-> "Use arc4random() or getrandom() for secure randomness"])
      @@ ("atoi" :> [category |-> "Unsafe Type Conversion",
            reason |-> "No error detection -- undefined behavior on overflow, no way to detect failure",
            suggestion |-> "Use strtol() with errno checking instead"])
      @@ ("atol" :> [category |-> "Unsafe Type Conversion",
            reason |-> "No error detection -- undefined behavior on overflow, no way to detect failure",
            suggestion |-> "Use strtol() with errno checking instead"])
      @@ ("atoll" :> [category |-> "Unsafe Type Conversion",
            reason |-> "No error detection -- undefined behavior on overflow, no way to detect failure",
            suggestion |-> "Use strtoll() with errno checking instead"])
      @@ ("atof" :> [category |-> "Unsafe Type Conversion",
            reason |-> "No error detection -- no way to distinguish '0.0' input from conversion failure",
            suggestion |-> "Use strtod() with errno checking instead"])
      @@ ("system" :> [category |-> "Process Execution (Command Injection Risk)",
            reason |-> "Passes string to shell -- vulnerable to command injection",
            suggestion |-> "Use execve() or posix_spawn() with explicit argument arrays"])
      @@ ("popen" :> [category |-> "Process Execution (Command Injection Risk)",
            reason |-> "Passes string to shell -- vulnerable to command injection",
            suggestion |-> "Use pipe() + fork() + exec() with explicit argument arrays"])
      @@ ("execl" :> [category |-> "Process Execution Risk",
            reason |-> "Inherits environment -- can be exploited via PATH or env manipulation",
            suggestion |-> "Use execve() with explicit environment, or validate all arguments"])
      @@ ("execle" :> [category |-> "Process Execution Risk",
            reason |-> "Safer than execl() but still requires careful argument validation",
            suggestion |-> "Validate all arguments and use absolute paths"])
      @@ ("execlp" :> [category |-> "Process Execution Risk",
            reason |-> "Searches PATH -- attacker can place malicious binary in PATH",
            suggestion |-> "Use execve() with absolute paths instead"])
      @@ ("execv" :> [category |-> "Process Execution Risk",
            reason |-> "Inherits environment -- can be exploited via env manipulation",
            suggestion |-> "Use execve() with explicit environment"])
      @@ ("execvp" :> [category |-> "Process Execution Risk",
            reason |-> "Searches PATH -- attacker can place malicious binary in PATH",
            suggestion |-> "Use execve() with absolute paths instead"])
      @@ ("execve" :> [category |-> "Process Execution Risk",
            reason |-> "Safest exec variant but still requires careful argument validation",
            suggestion |-> "Validate all arguments and paths before calling"])
      @@ ("signal" :> [category |-> "Unsafe Signal Handling",
            reason |-> "Behavior varies across platforms -- can cause race conditions",
            suggestion |-> "Use sigaction() for reliable, portable signal handling"])
      @@ ("memcpy" :> [category |-> "Dangerous Memory Operations",
            reason |-> "Undefined behavior if source and destination buffers overlap",
            suggestion |-> "Use memmove() if buffers may overlap, or verify non-overlap"])
      @@ ("memmove" :> [category |-> "Dangerous Memory Operations",
            reason |-> "Safer than memcpy() for overlapping buffers but still dangerous if size is wrong",
            suggestion |-> "Always validate the size parameter against actual buffer sizes"])
      @@ ("memcmp" :> [category |-> "Dangerous Memory Operations",
            reason |-> "Not constant-time -- unsafe for comparing secrets (timing side-channel attack)",
            suggestion |-> "Use a constant-time comparison function for passwords/keys/tokens"])
      @@ ("bcopy" :> [category |-> "Legacy / Obsolete",
            reason |-> "Non-standard legacy BSD function -- removed from POSIX.1-2008",
            suggestion |-> "Use memmove() instead"])
      @@ ("bzero" :> [category |-> "Legacy / Obsolete",
            reason |-> "Deprecated BSD function -- removed from POSIX.1-2008",
            suggestion |-> "Use memset(buf, 0, size) instead"])
      @@ ("getc" :> [category |-> "Potentially Unsafe I/O",
            reason |-> "Macro implementation can evaluate stream argument multiple times",
            suggestion |-> "Use fgetc() for side-effect-safe single character reads"])
      @@ ("putc" :> [category |-> "Potentially Unsafe I/O",
            reason |-> "Macro implementation can evaluate arguments multiple times",
            suggestion |-> "Use fputc() for side-effect-safe single character writes"])
      @@ ("getchar" :> [category |-> "Potentially Unsafe I/O",
            reason |-> "No input size control -- may block or read unbounded input",
            suggestion |-> "Use fgets() for controlled input reading"])
      @@ ("putchar" :> [category |-> "Potentially Unsafe I/O",
            reason |-> "No output error checking by default",
            suggestion |-> "Check return value or use fputc() with error handling"])
      @@ ("rewind" :> [category |-> "Potentially Unsafe I/O",
            reason |-> "Silently clears error indicator -- hides I/O failures",
            suggestion |-> "Use fseek(fp, 0, SEEK_SET) and check return value for errors"])
      @@ ("freopen" :> [category |-> "Potentially Unsafe I/O",
            reason |-> "Can redirect critical streams (stdin/stdout/stderr) unexpectedly",
            suggestion |-> "Use fopen() for new streams; avoid redirecting standard streams"])
      @@ ("getlogin" :> [category |-> "Unreliable Environment Info",
            reason |-> "Not reliable -- can be spoofed, may return NULL on some systems",
            suggestion |-> "Use getpwuid(getuid()) for reliable user identification"])
      @@ ("setbuf" :> [category |-> "Legacy / Obsolete",
            reason |-> "Cannot report errors -- if buffer is too small, undefined behavior",
            suggestion |-> "Use setvbuf() which returns an error code on failure"])
      @@ ("ctime" :> [category |-> "Legacy / Obsolete (Not Thread-Safe)",
            reason |-> "Returns pointer to static internal buffer -- not thread-safe",
            suggestion |-> "Use ctime_r() (POSIX) or strftime() instead"])
      @@ ("asctime" :> [category |-> "Legacy / Obsolete (Not Thread-Safe)",
            reason |-> "Returns pointer to static internal buffer -- not thread-safe",
            suggestion |-> "Use asctime_r() (POSIX) or strftime() instead"])
      @@ ("gmtime" :> [category |-> "Legacy / Obsolete (Not Thread-Safe)",
            reason |-> "Returns pointer to static internal buffer -- not thread-safe",
            suggestion |-> "Use gmtime_r() (POSIX) instead"])
      @@ ("localtime" :> [category |-> "Legacy / Obsolete (Not Thread-Safe)",
            reason |-> "Returns pointer to static internal buffer -- not thread-safe",
            suggestion |-> "Use localtime_r() (POSIX) instead"])

-----------------------------------------------------------------------------
(* analyzer/undefined_checker.py                                           *)

\* `current_file.endswith((".c", ".h"))`
EndsWithCOrH(cur_file) == EndsWith(cur_file, ".c") \/ EndsWith(cur_file, ".h")

\* truthiness of an Optional[list]: None and [] are both false
TruthyList(o) == ~IsNone(o) /\ Val(o) # << >>

\* imported_names collected from every import reference
ImportedNames(refs) ==
    UNION {Range(Val(r.imported_names)) :
           r \in {x \in Range(refs) : x.kind = "import" /\ TruthyList(x.imported_names)}}

HasStarImport(refs) == "*" \in ImportedNames(refs)

UndefinedReadMessage(name) ==
    "'" \o name \o "' is not defined in this file, the repository, or Python builtins."

UndefinedCallMessage(name, where) ==
    "Function '" \o name \o "' is not defined in this file, the repository, or "
    \o where \o "."

RECURSIVE UndefinedReadLoop(_, _, _)
UndefinedReadLoop(refs, cur_file, all_known) ==
    IF refs = << >> THEN << >>
    ELSE LET ref == Head(refs)
             rest == UndefinedReadLoop(Tail(refs), cur_file, all_known)
         IN  IF ref.kind # "read" THEN rest
             ELSE IF ref.name \in all_known THEN rest
             ELSE <<Diagnostic(cur_file, ref.line, "WARNING", "SNIPE_UNDEFINED_SYMBOL",
                       UndefinedReadMessage(ref.name))>> \o rest

RECURSIVE UndefinedCallLoop(_, _, _, _)
UndefinedCallLoop(refs, cur_file, all_known, lang) ==
    IF refs = << >> THEN << >>
    ELSE LET ref == Head(refs)
             rest == UndefinedCallLoop(Tail(refs), cur_file, all_known, lang)
         IN  IF ref.kind # "call" THEN rest
             ELSE IF lang = "python" /\ Contains(ref.name, ".") THEN rest
             ELSE IF ref.name \in all_known THEN rest
             ELSE <<Diagnostic(cur_file, ref.line, "WARNING", "SNIPE_UNDEFINED_SYMBOL",
                       UndefinedCallMessage(ref.name,
                           IF lang = "python" THEN "Python builtins"
                           ELSE "the C standard library"))>> \o rest

\* lines 137-142 without the imported names
check_undefined_symbols_Mut(refs, bsyms, repo, cur_file) ==
    LET lang == _get_language_from_path(cur_file)
        known == {b.name : b \in Range(bsyms)}
                 \cup {r.name : r \in {x \in Range(repo) : x.name # ""}}
    IN  IF IsNone(lang) THEN << >>
        ELSE IF Val(lang) = "python"
        THEN IF HasStarImport(refs) THEN << >>
             ELSE LET all_known == known \cup PYTHON_BUILTINS \cup PYTHON_COMMON_GLOBALS
                  IN  UndefinedReadLoop(refs, cur_file, all_known)
                      \o UndefinedCallLoop(refs, cur_file, all_known, "python")
        ELSE UndefinedCallLoop(refs, cur_file, known \cup C_STDLIB_FUNCTIONS, "c")

check_undefined_symbols(refs, bsyms, repo, cur_file) ==
    LET lang == _get_language_from_path(cur_file)
        known == {b.name : b \in Range(bsyms)}
                 \cup {r.name : r \in {x \in Range(repo) : x.name # ""}}
                 \cup ImportedNames(refs)
    IN  IF IsNone(lang) THEN << >>
        ELSE IF Val(lang) = "python"
        THEN IF HasStarImport(refs) THEN << >>
             ELSE LET all_known == known \cup PYTHON_BUILTINS \cup PYTHON_COMMON_GLOBALS
                  IN  UndefinedReadLoop(refs, cur_file, all_known)
                      \o UndefinedCallLoop(refs, cur_file, all_known, "python")
        ELSE UndefinedCallLoop(refs, cur_file, known \cup C_STDLIB_FUNCTIONS, "c")

-----------------------------------------------------------------------------
(* analyzer/shadow_checker.py                                              *)

\* module_level_names from the buffer: name -> Symbol, the last one wins
RECURSIVE ShadowBufferLoop(_, _)
ShadowBufferLoop(bsyms, d) ==
    IF bsyms = << >> THEN d
    ELSE LET s == Head(bsyms)
         IN  ShadowBufferLoop(Tail(bsyms),
                IF s.scope = "" /\ s.kind = "variable" THEN DictPut(d, s.name, Some(s)) ELSE d)

\* module-level variables of the repo's .py files are marked with None
RECURSIVE ShadowRepoLoop(_, _)
ShadowRepoLoop(repo, d) ==
    IF repo = << >> THEN d
    ELSE LET s == Head(repo)
         IN  ShadowRepoLoop(Tail(repo),
                IF /\ s.scope = "" /\ s.kind = "variable"
                   /\ EndsWith(s.file_path, ".py")
                   /\ s.name # "" /\ s.name \notin DOMAIN d
                THEN DictPut(d, s.name, None) ELSE d)

ShadowMessage(name, scope, outer) ==
    "Local variable '" \o name \o "' in '" \o scope \o "' shadows "
    \o (IF IsNone(outer) THEN "a module-level variable in the repository."
        ELSE "module-level variable defined at line " \o Str(Val(outer).line) \o ".")

RECURSIVE ShadowCheckLoop(_, _, _)
ShadowCheckLoop(bsyms, cur_file, module_level_names) ==
    IF bsyms = << >> THEN << >>
    ELSE LET s == Head(bsyms)
             rest == ShadowCheckLoop(Tail(bsyms), cur_file, module_level_names)
         IN  IF s.scope = "" \/ s.kind # "variable" THEN rest
             ELSE IF s.name \notin DOMAIN module_level_names THEN rest
             ELSE <<Diagnostic(cur_file, s.line, "WARNING", "SNIPE_SHADOWED_SYMBOL",
                       ShadowMessage(s.name, s.scope, module_level_names[s.name]))>>
                  \o rest

\* lines 31-37 left out: only the buffer's own module-level variables count
check_variable_shadowing_Mut(refs, bsyms, repo, cur_file) ==
    IF Lower(PathSuffix(cur_file)) # ".py" THEN << >>
    ELSE ShadowCheckLoop(bsyms, cur_file, ShadowBufferLoop(bsyms, EmptyDict))

check_variable_shadowing(refs, bsyms, repo, cur_file) ==
    IF Lower(PathSuffix(cur_file)) # ".py" THEN << >>
    ELSE ShadowCheckLoop(bsyms, cur_file,
            ShadowRepoLoop(repo, ShadowBufferLoop(bsyms, EmptyDict)))

-----------------------------------------------------------------------------
(* analyzer/format_checker.py                                              *)

FormatMessage(name, format_specifiers, arg_count) ==
    "Format string in '" \o name \o "' has " \o Str(format_specifiers)
    \o " specifier(s) but " \o Str(arg_count) \o " argument(s) provided."

RECURSIVE FormatLoop(_, _)
FormatLoop(refs, cur_file) ==
    IF refs = << >> THEN << >>
    ELSE LET ref == Head(refs)
             rest == FormatLoop(Tail(refs), cur_file)
         IN  IF ref.kind # "format_call" THEN rest
             ELSE IF IsNone(ref.format_specifiers) \/ IsNone(ref.arg_count) THEN rest
             ELSE IF Val(ref.format_specifiers) # Val(ref.arg_count)
                  THEN <<Diagnostic(cur_file, ref.line, "ERROR", "SNIPE_FORMAT_STRING",
                            FormatMessage(ref.name, Val(ref.format_specifiers),
                                          Val(ref.arg_count)))>> \o rest
                  ELSE rest

check_format_strings(refs, bsyms, repo, cur_file) ==
    IF ~EndsWithCOrH(cur_file) THEN << >> ELSE FormatLoop(refs, cur_file)

-----------------------------------------------------------------------------
(* analyzer/unused_checker.py                                              *)

UnusedExternMessage(name) == "Extern declaration '" \o name \o "' is never used in this file."

RECURSIVE UnusedExternLoop(_, _, _)
UnusedExternLoop(bsyms, cur_file, ref_names) ==
    IF bsyms = << >> THEN << >>
    ELSE LET sym == Head(bsyms)
             rest == UnusedExternLoop(Tail(bsyms), cur_file, ref_names)
         IN  IF ~sym.is_extern THEN rest
             ELSE IF sym.name \notin ref_names
                  THEN <<Diagnostic(cur_file, sym.line, "WARNING", "SNIPE_UNUSED_EXTERN",
                            UnusedExternMessage(sym.name))>> \o rest
                  ELSE rest

\* line 26 with only the call references collected
check_unused_externs_Mut(refs, bsyms, repo, cur_file) ==
    IF ~EndsWithCOrH(cur_file) THEN << >>
    ELSE UnusedExternLoop(bsyms, cur_file,
            {r.name : r \in {x \in Range(refs) : x.kind = "call"}})

check_unused_externs(refs, bsyms, repo, cur_file) ==
    IF ~EndsWithCOrH(cur_file) THEN << >>
    ELSE UnusedExternLoop(bsyms, cur_file, {r.name : r \in Range(refs)})

DeadImportMessage(name) == "Imported name '" \o name \o "' is never used in this file."

\* inner loop over the imported_names of one import reference
RECURSIVE DeadImportNames(_, _, _, _)
DeadImportNames(names, line, cur_file, used_names) ==
    IF names = << >> THEN << >>
    ELSE LET rest == DeadImportNames(Tail(names), line, cur_file, used_names)
         IN  IF Head(names) = "*" THEN rest
             ELSE IF Head(names) \notin used_names
                  THEN <<Diagnostic(cur_file, line, "WARNING", "SNIPE_DEAD_IMPORT",
                            DeadImportMessage(Head(names)))>> \o rest
                  ELSE rest

RECURSIVE DeadImportLoop(_, _, _)
DeadImportLoop(refs, cur_file, used_names) ==
    IF refs = << >> THEN << >>
    ELSE LET ref == Head(refs)
             rest == DeadImportLoop(Tail(refs), cur_file, used_names)
         IN  IF ref.kind # "import" THEN rest
             ELSE IF ~TruthyList(ref.imported_names) THEN rest
             ELSE DeadImportNames(Val(ref.imported_names), ref.line, cur_file, used_names)
                  \o rest

check_dead_imports(refs, bsyms, repo, cur_file) ==
    IF ~EndsWith(cur_file, ".py") THEN << >>
    ELSE DeadImportLoop(refs, cur_file,
            {r.name : r \in {x \in Range(refs) : x.kind # "import"}})

-----------------------------------------------------------------------------
(* analyzer/return_checker.py and analyzer/assignment_checker.py           *)

ReturnMessage(actual, declared, name) ==
    "Return type '" \o actual \o "' does not match declared return type '"
    \o declared \o "' for function '" \o name \o "'."

RECURSIVE ReturnLoop(_, _)
ReturnLoop(refs, cur_file) ==
    IF refs = << >> THEN << >>
    ELSE LET ref == Head(refs)
             rest == ReturnLoop(Tail(refs), cur_file)
         IN  IF ref.kind # "return_value" THEN rest
             ELSE IF ~Truthy(ref.declared_return_type) \/ ~Truthy(ref.return_value_type)
                  THEN rest
             ELSE LET declared == Strip(Val(ref.declared_return_type))
                      actual == Strip(Val(ref.return_value_type))
                  IN  IF declared # actual
                      THEN <<Diagnostic(cur_file, ref.line, "ERROR", "SNIPE_TYPE_MISMATCH",
                                ReturnMessage(actual, declared, ref.name))>> \o rest
                      ELSE rest

\* line 34 with severity WARNING
check_return_types_Mut(refs, bsyms, repo, cur_file) ==
    IF ~EndsWith(cur_file, ".py") THEN << >>
    ELSE LET out == ReturnLoop(refs, cur_file)
         IN  [i \in DOMAIN out |-> [out[i] EXCEPT !.severity = "WARNING"]]

check_return_types(refs, bsyms, repo, cur_file) ==
    IF ~EndsWith(cur_file, ".py") THEN << >> ELSE ReturnLoop(refs, cur_file)

AssignmentMessage(name, annotation_type, inferred_type) ==
    "Variable '" \o name \o "' is annotated as '" \o annotation_type
    \o "' but assigned a value of type '" \o inferred_type \o "'."

RECURSIVE AssignmentLoop(_, _)
AssignmentLoop(refs, cur_file) ==
    IF refs = << >> THEN << >>
    ELSE LET ref == Head(refs)
             rest == AssignmentLoop(Tail(refs), cur_file)
         IN  IF ref.kind # "assignment" THEN rest
             ELSE IF ~Truthy(ref.annotation_type) \/ ~Truthy(ref.inferred_type) THEN rest
             ELSE IF Val(ref.annotation_type) # Val(ref.inferred_type)
                  THEN <<Diagnostic(cur_file, ref.line, "ERROR", "SNIPE_TYPE_MISMATCH",
                            AssignmentMessage(ref.name, Val(ref.annotation_type),
                                              Val(ref.inferred_type)))>> \o rest
                  ELSE rest

check_assignment_types(refs, bsyms, repo, cur_file) ==
    IF ~EndsWith(cur_file, ".py") THEN << >> ELSE AssignmentLoop(refs, cur_file)

-----------------------------------------------------------------------------
(* analyzer/safety_checker.py                                              *)

UnsafeMessage(name, entry) ==
    "'" \o name \o "()' -- " \o entry.category \o ". " \o entry.reason \o ". "
    \o entry.suggestion \o "."

RECURSIVE UnsafeLoop(_, _)
UnsafeLoop(refs, cur_file) ==
    IF refs = << >> THEN << >>
    ELSE LET ref == Head(refs)
             rest == UnsafeLoop(Tail(refs), cur_file)
         IN  IF ref.kind # "call" THEN rest
             ELSE IF ref.name \in DOMAIN REMOVED_FUNCTIONS
                  THEN <<Diagnostic(cur_file, ref.line, "ERROR", "SNIPE_UNSAFE_FUNCTION",
                            UnsafeMessage(ref.name, REMOVED_FUNCTIONS[ref.name]))>> \o rest
             ELSE IF ref.name \in DOMAIN UNSAFE_FUNCTIONS
                  THEN <<Diagnostic(cur_file, ref.line, "WARNING", "SNIPE_UNSAFE_FUNCTION",
                            UnsafeMessage(ref.name, UNSAFE_FUNCTIONS[ref.name]))>> \o rest
             ELSE rest

\* without the extension test of lines 342-343
check_unsafe_functions_Mut(refs, bsyms, repo, cur_file) == UnsafeLoop(refs, cur_file)

check_unsafe_functions(refs, bsyms, repo, cur_file) ==
    IF ~EndsWithCOrH(cur_file) THEN << >> ELSE UnsafeLoop(refs, cur_file)

-----------------------------------------------------------------------------
(* analyzer/arg_type_checker.py                                            *)

\* func_params from the buffer: functions with parameters, the last one wins
RECURSIVE ArgBufferLoop(_, _)
ArgBufferLoop(bsyms, d) ==
    IF bsyms = << >> THEN d
    ELSE LET s == Head(bsyms)
         IN  ArgBufferLoop(Tail(bsyms),
                IF s.kind = "function" /\ s.params # << >>
                THEN DictPut(d, s.name, s.params) ELSE d)

\* repo functions fill only the names still missing
RECURSIVE ArgRepoLoop(_, _)
ArgRepoLoop(repo, d) ==
    IF repo = << >> THEN d
    ELSE LET s == Head(repo)
         IN  ArgRepoLoop(Tail(repo),
                IF /\ s.kind = "function" /\ s.params # << >>
                   /\ s.name # "" /\ s.name \notin DOMAIN d
                THEN DictPut(d, s.name, s.params) ELSE d)

ArgTypeMessage(param_name, name, param_type, arg_type) ==
    "Argument '" \o param_name \o "' of '" \o name \o "' expects type '"
    \o param_type \o "' but got '" \o arg_type \o "'."

\* the loop over enumerate(ref.arg_types), from position i (1-based here)
RECURSIVE ArgPositions(_, _, _, _)
ArgPositions(ref, regular_params, i, cur_file) ==
    IF i > Len(Val(ref.arg_types)) THEN << >>
    ELSE IF i > Len(regular_params) THEN << >>
    ELSE LET arg_type == Val(ref.arg_types)[i]
             param_type == regular_params[i].type
             rest == ArgPositions(ref, regular_params, i + 1, cur_file)
         IN  IF IsNone(arg_type) THEN rest
             ELSE IF IsNone(param_type) THEN rest
             ELSE IF Val(arg_type) # Val(param_type)
                  THEN <<Diagnostic(cur_file, ref.line, "ERROR", "SNIPE_ARG_TYPE_MISMATCH",
                            ArgTypeMessage(regular_params[i].name, ref.name,
                                           Val(param_type), Val(arg_type)))>> \o rest
                  ELSE rest

RECURSIVE ArgRefLoop(_, _, _)
ArgRefLoop(refs, cur_file, func_params) ==
    IF refs = << >> THEN << >>
    ELSE LET ref == Head(refs)
             rest == ArgRefLoop(Tail(refs), cur_file, func_params)
         IN  IF ref.kind # "call" \/ ~TruthyList(ref.arg_types) THEN rest
             ELSE IF Contains(ref.name, ".") THEN rest
             ELSE IF ref.name \notin DOMAIN func_params THEN rest
             ELSE ArgPositions(ref, SelectSeq(func_params[ref.name], IsRegularParam),
                               1, cur_file) \o rest

\* lines 32-34 left out: the buffer's own function definitions are not used
check_arg_types_Mut(refs, bsyms, repo, cur_file) ==
    IF Lower(PathSuffix(cur_file)) # ".py" THEN << >>
    ELSE ArgRefLoop(refs, cur_file, ArgRepoLoop(repo, EmptyDict))

check_arg_types(refs, bsyms, repo, cur_file) ==
    IF Lower(PathSuffix(cur_file)) # ".py" THEN << >>
    ELSE ArgRefLoop(refs, cur_file, ArgRepoLoop(repo, ArgBufferLoop(bsyms, EmptyDict)))

-----------------------------------------------------------------------------
(* analyzer/struct_checker.py                                              *)

\* characters of identifiers in code-point order, for sorted()
AsciiOrder == "0123456789ABCDEFGHIJKLMNOPQRSTUVWXYZ_abcdefghijklmnopqrstuvwxyz"

CharRank(c) ==
    IF \E i \in 1..Len(AsciiOrder) : SubSeq(AsciiOrder, i, i) = c
    THEN CHOOSE i \in 1..Len(AsciiOrder) : SubSeq(AsciiOrder, i, i) = c
    ELSE 0

\* Python's < on str
RECURSIVE StrLess(_, _)
StrLess(a, b) ==
    IF Len(b) = 0 THEN FALSE
    ELSE IF Len(a) = 0 THEN TRUE
    ELSE LET ra == CharRank(SubSeq(a, 1, 1))
             rb == CharRank(SubSeq(b, 1, 1))
         IN  IF ra # rb THEN ra < rb
             ELSE StrLess(SubSeq(a, 2, Len(a)), SubSeq(b, 2, Len(b)))

\* sorted(set of str)
RECURSIVE Sorted(_)
Sorted(S) ==
    IF S = {} THEN << >>
    ELSE LET m == CHOOSE x \in S : \A y \in S \ {x} : StrLess(x, y)
         IN  <<m>> \o Sorted(S \ {m})

\* ", ".join(seq)
RECURSIVE JoinComma(_)
JoinComma(seq) ==
    IF seq = << >> THEN ""
    ELSE IF Len(seq) = 1 THEN seq[1]
    ELSE seq[1] \o ", " \o JoinComma(Tail(seq))

\* var_type.split()[-1]: the last whitespace-separated word
LastWord(s) ==
    LET t == RStrip(s)
        spaces == {i \in 1..Len(t) : IsSpace(SubSeq(t, i, i))}
    IN  IF spaces = {} THEN t
        ELSE LET last == CHOOSE i \in spaces : \A j \in spaces : j <= i
             IN  SubSeq(t, last + 1, Len(t))

\* var_types: buffer symbols with a type (the last wins), then repo symbols
\* for the names still missing
RECURSIVE VarTypesBuffer(_, _)
VarTypesBuffer(bsyms, d) ==
    IF bsyms = << >> THEN d
    ELSE LET s == Head(bsyms)
         IN  VarTypesBuffer(Tail(bsyms),
                IF Truthy(s.type) THEN DictPut(d, s.name, Val(s.type)) ELSE d)

RECURSIVE VarTypesRepo(_, _)
VarTypesRepo(repo, d) ==
    IF repo = << >> THEN d
    ELSE LET s == Head(repo)
         IN  VarTypesRepo(Tail(repo),
                IF s.name # "" /\ Truthy(s.type) /\ s.name \notin DOMAIN d
                THEN DictPut(d, s.name, Val(s.type)) ELSE d)

\* struct_members: the same order of preference
RECURSIVE StructMembersBuffer(_, _)
StructMembersBuffer(bsyms, d) ==
    IF bsyms = << >> THEN d
    ELSE LET s == Head(bsyms)
         IN  StructMembersBuffer(Tail(bsyms),
                IF s.kind = "struct" /\ s.members # << >>
                THEN DictPut(d, s.name, s.members) ELSE d)

RECURSIVE StructMembersRepo(_, _)
StructMembersRepo(repo, d) ==
    IF repo = << >> THEN d
    ELSE LET s == Head(repo)
         IN  StructMembersRepo(Tail(repo),
                IF /\ s.kind = "struct" /\ s.members # << >>
                   /\ s.name # "" /\ s.name \notin DOMAIN d
                THEN DictPut(d, s.name, s.members) ELSE d)

StructMessage(struct_name, member_name, member_names) ==
    "Struct '" \o struct_name \o "' has no member '" \o member_name
    \o "'. Available members: " \o JoinComma(Sorted(member_names)) \o "."

RECURSIVE StructRefLoop(_, _, _, _)
StructRefLoop(refs, cur_file, var_types, struct_members) ==
    IF refs = << >> THEN << >>
    ELSE LET ref == Head(refs)
             rest == StructRefLoop(Tail(refs), cur_file, var_types, struct_members)
         IN  IF ref.kind # "member_access" THEN rest
             ELSE IF ~Truthy(ref.member_name) THEN rest
             ELSE IF ref.name \notin DOMAIN var_types THEN rest
             ELSE IF ~StartsWith(var_types[ref.name], "struct ") THEN rest
             ELSE LET struct_name == LastWord(var_types[ref.name])
                  IN  IF struct_name \notin DOMAIN struct_members THEN rest
                      ELSE LET member_names ==
                                   {m.name : m \in Range(struct_members[struct_name])}
                           IN  IF Val(ref.member_name) \notin member_names
                               THEN <<Diagnostic(cur_file, ref.line, "ERROR",
                                         "SNIPE_STRUCT_ACCESS",
                                         StructMessage(struct_name, Val(ref.member_name),
                                                       member_names))>> \o rest
                               ELSE rest

\* lines 29-32 left out: variable types are taken from the buffer only
check_struct_access_Mut(refs, bsyms, repo, cur_file) ==
    IF ~EndsWithCOrH(cur_file) THEN << >>
    ELSE StructRefLoop(refs, cur_file,
            VarTypesBuffer(bsyms, EmptyDict),
            StructMembersRepo(repo, StructMembersBuffer(bsyms, EmptyDict)))

check_struct_access(refs, bsyms, repo, cur_file) ==
    IF ~EndsWithCOrH(cur_file) THEN << >>
    ELSE StructRefLoop(refs, cur_file,
            VarTypesRepo(repo, VarTypesBuffer(bsyms, EmptyDict)),
            StructMembersRepo(repo, StructMembersBuffer(bsyms, EmptyDict)))

-----------------------------------------------------------------------------
(* server.py: the checker pipeline of analyze and its deduplication        *)

\* lines 118-133: the thirteen checkers in pipeline order
RunCheckers(refs, bsyms, repo, cur_file) ==
    check_type_mismatch(refs, bsyms, repo, cur_file)
    \o check_array_bounds(refs, bsyms, repo, cur_file)
    \o check_function_signatures(refs, repo, cur_file)
    \o check_undefined_symbols(refs, bsyms, repo, cur_file)
    \o check_variable_shadowing(refs, bsyms, repo, cur_file)
    \o check_format_strings(refs, bsyms, repo, cur_file)
    \o check_unused_externs(refs, bsyms, repo, cur_file)
    \o check_dead_imports(refs, bsyms, repo, cur_file)
    \o check_return_types(refs, bsyms, repo, cur_file)
    \o check_unsafe_functions(refs, bsyms, repo, cur_file)
    \o check_assignment_types(refs, bsyms, repo, cur_file)
    \o check_arg_types(refs, bsyms, repo, cur_file)
    \o check_struct_access(refs, bsyms, repo, cur_file)

\* key = (d.file, d.line, d.code, d.message)
DiagKey(d) == <<d.file, d.line, d.code, d.message>>

\* the test of line 139
IsNewKey_Mut(key, seen) == TRUE

IsNewKey(key, seen) == key \notin seen

\* lines 135-142: keep the first diagnostic of every key
RECURSIVE DedupLoop(_, _)
DedupLoop(diags, seen) ==
    IF diags = << >> THEN << >>
    ELSE LET d == Head(diags)
         IN  IF IsNewKey(DiagKey(d), seen)
             THEN <<d>> \o DedupLoop(Tail(diags), seen \cup {DiagKey(d)})
             ELSE DedupLoop(Tail(diags), seen)

\* line 135: seen starts empty in every call
Deduplicate_Stale(diags) == DedupLoop(diags, {DiagKey(d) : d \in Range(diagnostics)})

Deduplicate(diags) == DedupLoop(diags, {})

\* what analyze returns for a parsed buffer and an index
AnalyzeDiagnostics(refs, bsyms, repo, cur_file) ==
    Deduplicate(RunCheckers(refs, bsyms, repo, cur_file))

-----------------------------------------------------------------------------
(* Bounds of the checker specifications                                    *)

MaxRefs == 2

MaxBufSyms == 1

MaxRepoSyms == 2

\* the server state of a specification that only applies checkers
ServerUnused ==
    /\ _repo_path = None
    /\ _repo_symbols = << >>
    /\ symbols_file = None
    /\ diagnostics_file = << >>
    /\ disk = << >>
    /\ last_op = << >>
    /\ threads = << >>
    /\ requests = 0

\* request.file_path values: a C buffer and a Python buffer of workspace /ws
BufferFiles == {"/ws/main.c", "/ws/app.py"}

\* the extractors emit read references for Python only and extern symbols
\* for C only
IsPythonBuffer(cur_file) == _get_language_from_path(cur_file) = Some("python")

Call(name, line, arg_count) ==
    [Reference(name, "call", line) EXCEPT !.arg_count = Some(arg_count)]

FunctionSymbol(name, file_path, line, params, is_variadic) ==
    [Symbol(name, "function", None, file_path, line)
        EXCEPT !.params = params, !.is_variadic = is_variadic]

MemberAccess(name, line, member_name) ==
    [Reference(name, "member_access", line) EXCEPT !.member_name = Some(member_name)]

StructSymbol(name, file_path, line, members) ==
    [Symbol(name, "struct", None, file_path, line) EXCEPT !.members = members]

ArrayAccess(name, line, index_value) ==
    [Reference(name, "array_access", line) EXCEPT !.index_value = index_value]

ArraySymbol(name, type, file_path, line, array_size, is_extern) ==
    [Symbol(name, IF IsNone(array_size) THEN "variable" ELSE "array", type, file_path, line)
        EXCEPT !.array_size = array_size, !.is_extern = is_extern]

-----------------------------------------------------------------------------
(* Specification SpecBounds: check_array_bounds on bounded inputs          *)

BoundsRefUniverse(cur_file) ==
    {ArrayAccess("arr", 1, i) : i \in {None, Some(-1), Some(0), Some(4), Some(5), Some(99)}}
    \cup {ArrayAccess("buf", 1, Some(3))}
    \cup (IF IsPythonBuffer(cur_file) THEN {Reference("arr", "read", 1)}
          ELSE {Call("arr", 1, 0)})

BoundsBufferUniverse(cur_file) ==
    IF IsPythonBuffer(cur_file)
    THEN {ArraySymbol("arr", Some("list"), cur_file, 1, Some(5), FALSE),
          ArraySymbol("arr", Some("tuple"), cur_file, 2, Some(3), FALSE),
          ArraySymbol("arr", Some("int"), cur_file, 1, None, FALSE)}
    ELSE {ArraySymbol("arr", Some("int"), cur_file, 1, Some(5), FALSE),
          ArraySymbol("arr", Some("int"), cur_file, 2, Some(3), TRUE),
          ArraySymbol("arr", Some("int"), cur_file, 1, None, FALSE)}

BoundsRepoUniverse ==
    {ArraySymbol("arr", Some("int"), "lib.c", 3, Some(5), FALSE),
     ArraySymbol("arr", Some("int"), "main.c", 1, Some(2), FALSE)}

InitBounds ==
    /\ current_file \in BufferFiles
    /\ buffer_refs \in SeqsUpTo(BoundsRefUniverse(current_file), MaxRefs)
    /\ buffer_symbols \in SeqsUpTo(BoundsBufferUniverse(current_file), MaxBufSyms)
    /\ repo_symbols \in SeqsUpTo(BoundsRepoUniverse, MaxRepoSyms)
    /\ diagnostics = << >>
    /\ phase = "input"
    /\ buffer_tree = << >>
    /\ ServerUnused

RunBounds ==
    /\ phase = "input"
    /\ diagnostics' = check_array_bounds(buffer_refs, buffer_symbols, repo_symbols,
                                         current_file)
    /\ phase' = "done"
    /\ UNCHANGED <<current_file, buffer_refs, buffer_symbols, repo_symbols, buffer_tree>>
    /\ UNCHANGED serverVars

NextBounds == RunBounds

SpecBounds == InitBounds /\ [][NextBounds]_vars

\* The array symbol a name resolves to: the last sized repo symbol of another
\* file, else the first sized buffer symbol, else none.
ResolvedArray(name) ==
    LET r == {i \in 1..Len(repo_symbols) :
                /\ repo_symbols[i].name = name
                /\ ~IsNone(repo_symbols[i].array_size)
                /\ ~_is_same_file(current_file, repo_symbols[i].file_path)}
        b == {i \in 1..Len(buffer_symbols) :
                /\ buffer_symbols[i].name = name
                /\ ~IsNone(buffer_symbols[i].array_size)}
    IN  IF r # {} THEN Some(repo_symbols[CHOOSE i \in r : \A j \in r : j <= i])
        ELSE IF b # {} THEN Some(buffer_symbols[CHOOSE i \in b : \A j \in b : i <= j])
        ELSE None

\* reference r is an array access with a literal index, and its name
\* resolves to the sized symbol a
IsBoundsCase(r, a) ==
    r.kind = "array_access" /\ ~IsNone(r.index_value) /\ ~IsNone(a)

IsBoundsViolation(r, a) ==
    /\ IsBoundsCase(r, a)
    /\ \/ Val(r.index_value) < 0
       \/ Val(r.index_value) >= Val(Val(a).array_size)

BoundsCase(k) == IsBoundsCase(buffer_refs[k], ResolvedArray(buffer_refs[k].name))

BoundsViolated(k) == IsBoundsViolation(buffer_refs[k], ResolvedArray(buffer_refs[k].name))

\* the diagnostics that report reference r against the symbol a
BoundsDiagnosticsOf(r, a) ==
    LET message == BoundsMessage(Val(r.index_value), Val(a.array_size), r.name,
                                 a.file_path, a.line)
    IN  {d \in 1..Len(diagnostics) :
            /\ diagnostics[d].line = r.line
            /\ diagnostics[d].code = "SNIPE_ARRAY_BOUNDS"
            /\ diagnostics[d].severity = "ERROR"
            /\ diagnostics[d].file = current_file
            /\ diagnostics[d].message = message}

\* the references that read like reference r (same name, line and index)
BoundsTwins(r) ==
    {j \in 1..Len(buffer_refs) :
        /\ buffer_refs[j].kind = "array_access"
        /\ buffer_refs[j].name = r.name
        /\ buffer_refs[j].line = r.line
        /\ buffer_refs[j].index_value = r.index_value}

\* reference k has the diagnostics the rule gives it
BoundsRefAsRuled(k) ==
    LET r == buffer_refs[k]
        a == ResolvedArray(r.name)
    IN  IsBoundsCase(r, a) =>
            Cardinality(BoundsDiagnosticsOf(r, Val(a))) =
                IF IsBoundsViolation(r, a) THEN Cardinality(BoundsTwins(r)) ELSE 0

\* C1: every array_access with literal index i and resolved size N gets one
\* SNIPE_ARRAY_BOUNDS diagnostic at its line iff i < 0 or i >= N (one per
\* such reference), and no other reference gets any.
C1_BoundsIff ==
    phase = "done" =>
        /\ \A k \in 1..Len(buffer_refs) : BoundsRefAsRuled(k)
        /\ Len(diagnostics) = Cardinality({k \in 1..Len(buffer_refs) : BoundsViolated(k)})

\* size 5: index 4 passes and index 5 is reported once
C1_Witness ==
    /\ phase = "done"
    /\ Len(buffer_refs) = 2
    /\ buffer_refs[1] = ArrayAccess("arr", 1, Some(4))
    /\ buffer_refs[2] = ArrayAccess("arr", 1, Some(5))
    /\ BoundsCase(2)
    /\ Val(Val(ResolvedArray("arr")).array_size) = 5
    /\ Len(diagnostics) = 1
    /\ diagnostics[1].code = "SNIPE_ARRAY_BOUNDS"

-----------------------------------------------------------------------------
(* Specification SpecSig: check_function_signatures on bounded inputs      *)

\* the buffer may also be addressed by the path the index knows it under
SigFiles == BufferFiles \cup {"util.py"}

SigRefUniverse ==
    {Call("greet", 1, a) : a \in 0..3}
    \cup {Call("flex", 1, 0), Call("flex", 2, 3), Call("log", 1, 0), Call("log", 1, 2),
          Call("nofn", 1, 1), ArrayAccess("greet", 1, Some(0))}

SigRepoUniverse ==
    {\* def greet(name, greeting="Hello")
     FunctionSymbol("greet", "util.py", 1,
        <<Param("name", None, FALSE), Param("greeting", None, TRUE)>>, FALSE),
     \* def greet(name)
     FunctionSymbol("greet", "other.py", 5, <<Param("name", None, FALSE)>>, FALSE),
     \* def flex(*args, **kwargs)
     FunctionSymbol("flex", "util.py", 9,
        <<Param("*args", None, FALSE), Param("**kwargs", None, FALSE)>>, TRUE),
     \* def log(fmt, *args)
     FunctionSymbol("log", "other.py", 8,
        <<Param("fmt", None, FALSE), Param("*args", None, FALSE)>>, TRUE),
     \* nofn = 3
     Symbol("nofn", "variable", Some("int"), "util.py", 12)}

InitSig ==
    /\ current_file \in SigFiles
    /\ buffer_refs \in SeqsUpTo(SigRefUniverse, MaxRefs)
    /\ buffer_symbols = << >>
    /\ repo_symbols \in SeqsUpTo(SigRepoUniverse, MaxRepoSyms)
    /\ diagnostics = << >>
    /\ phase = "input"
    /\ buffer_tree = << >>
    /\ ServerUnused

RunSig ==
    /\ phase = "input"
    /\ diagnostics' = check_function_signatures(buffer_refs, repo_symbols, current_file)
    /\ phase' = "done"
    /\ UNCHANGED <<current_file, buffer_refs, buffer_symbols, repo_symbols, buffer_tree>>
    /\ UNCHANGED serverVars

NextSig == RunSig

SpecSig == InitSig /\ [][NextSig]_vars

\* The function symbol a call is checked against: the last function of that
\* name declared in the current file, else the first function of that name.
ResolvedFunction(name) ==
    LET all == {i \in 1..Len(repo_symbols) :
                    repo_symbols[i].kind = "function" /\ repo_symbols[i].name = name}
        own == {i \in all : repo_symbols[i].file_path = current_file}
    IN  IF own # {} THEN Some(repo_symbols[CHOOSE i \in own : \A j \in own : j <= i])
        ELSE IF all # {} THEN Some(repo_symbols[CHOOSE i \in all : \A j \in all : i <= j])
        ELSE None

NonPackParams(f) == {i \in 1..Len(f.params) : ~StartsWith(f.params[i].name, "*")}

MinRequired(f) == Cardinality({i \in NonPackParams(f) : ~f.params[i].has_default})

MaxAllowed(f) == Cardinality(NonPackParams(f))

SigCase(k) ==
    /\ buffer_refs[k].kind = "call"
    /\ ~IsNone(ResolvedFunction(buffer_refs[k].name))

SigViolated(k) ==
    /\ SigCase(k)
    /\ LET f == Val(ResolvedFunction(buffer_refs[k].name))
           a == Val(buffer_refs[k].arg_count)
       IN  a < MinRequired(f) \/ (~f.is_variadic /\ a > MaxAllowed(f))

\* the SNIPE_SIGNATURE_DRIFT diagnostics that report call k
SigDiagnosticsOf(k) ==
    LET r == buffer_refs[k]
        f == Val(ResolvedFunction(r.name))
    IN  {d \in 1..Len(diagnostics) :
            /\ diagnostics[d].code = "SNIPE_SIGNATURE_DRIFT"
            /\ diagnostics[d].severity = "ERROR"
            /\ diagnostics[d].file = current_file
            /\ diagnostics[d].line = r.line
            /\ diagnostics[d].message =
                 SignatureMessage(r.name,
                    ExpectedStr(MinRequired(f), MaxAllowed(f), f.is_variadic),
                    Val(r.arg_count), f.file_path, f.line)}

SigTwins(k) ==
    {j \in 1..Len(buffer_refs) :
        /\ buffer_refs[j].kind = "call"
        /\ buffer_refs[j].name = buffer_refs[k].name
        /\ buffer_refs[j].line = buffer_refs[k].line
        /\ buffer_refs[j].arg_count = buffer_refs[k].arg_count}

\* C2: a call with a arguments against a function symbol gets one
\* SNIPE_SIGNATURE_DRIFT diagnostic iff a < min_required or (not variadic and
\* a > max_allowed), pack parameters counting towards neither bound; calls to
\* names without a function symbol and other references get none.
C2_SignatureIff ==
    phase = "done" =>
        /\ \A k \in 1..Len(buffer_refs) :
              SigCase(k) =>
                  Cardinality(SigDiagnosticsOf(k)) =
                      IF SigViolated(k) THEN Cardinality(SigTwins(k)) ELSE 0
        /\ Len(diagnostics) = Cardinality({k \in 1..Len(buffer_refs) : SigViolated(k)})

\* greet(name, greeting="Hello"): greet() drifts, flex(*args, **kwargs) never does
C2_Witness ==
    /\ phase = "done"
    /\ Len(buffer_refs) = 2
    /\ buffer_refs[1] = Call("greet", 1, 0)
    /\ buffer_refs[2] = Call("flex", 1, 0)
    /\ SigCase(1) /\ SigCase(2)
    /\ MinRequired(Val(ResolvedFunction("greet"))) = 1
    /\ Val(ResolvedFunction("flex")).is_variadic
    /\ Len(diagnostics) = 1
    /\ diagnostics[1].code = "SNIPE_SIGNATURE_DRIFT"

-----------------------------------------------------------------------------
(* Specification SpecPipeline: the checkers and the deduplication of       *)
(* analyze, applied to a parsed buffer and an index                        *)

PipelineRefUniverse(cur_file) ==
    {ArrayAccess("arr", 1, Some(5)), Call("greet", 3, 0), Call("gets", 3, 1)}
    \cup (IF IsPythonBuffer(cur_file)
          THEN {Reference("arr", "read", 1)}
          ELSE {MemberAccess("p", 4, "z")})

PipelineBufferUniverse(cur_file) ==
    IF IsPythonBuffer(cur_file)
    THEN {\* arr = load()
          Symbol("arr", "variable", None, cur_file, 1),
          \* arr = [1, 2, 3]
          ArraySymbol("arr", Some("list"), cur_file, 1, Some(3), FALSE)}
    ELSE {\* extern int arr[10];
          ArraySymbol("arr", Some("int"), cur_file, 1, Some(10), TRUE),
          \* struct Point p;
          Symbol("p", "variable", Some("struct Point"), cur_file, 2)}

PipelineRepoUniverse ==
    {\* char arr[5];
     ArraySymbol("arr", Some("char"), "lib.c", 3, Some(5), FALSE),
     \* def greet(name: str, greeting: str = "Hello")
     FunctionSymbol("greet", "util.py", 1,
        <<Param("name", Some("str"), FALSE), Param("greeting", Some("str"), TRUE)>>, FALSE),
     \* struct Point { int x; int y; };
     StructSymbol("Point", "types.h", 20,
        <<[name |-> "x", type |-> "int"], [name |-> "y", type |-> "int"]>>)}

InitPipeline ==
    /\ current_file \in BufferFiles
    /\ buffer_refs \in SeqsUpTo(PipelineRefUniverse(current_file), MaxRefs)
    /\ buffer_symbols \in SeqsUpTo(PipelineBufferUniverse(current_file), MaxBufSyms)
    /\ repo_symbols \in SeqsUpTo(PipelineRepoUniverse, MaxRepoSyms)
    /\ diagnostics = << >>
    /\ phase = "input"
    /\ buffer_tree = << >>
    /\ ServerUnused

RunPipeline ==
    /\ phase = "input"
    /\ diagnostics' = AnalyzeDiagnostics(buffer_refs, buffer_symbols, repo_symbols,
                                         current_file)
    /\ phase' = "done"
    /\ UNCHANGED <<current_file, buffer_refs, buffer_symbols, repo_symbols, buffer_tree>>
    /\ UNCHANGED serverVars

NextPipeline == RunPipeline

SpecPipeline == InitPipeline /\ [][NextPipeline]_vars

\* the checkers' outputs in pipeline order, before deduplication
RawDiagnostics == RunCheckers(buffer_refs, buffer_symbols, repo_symbols, current_file)

\* positions of a list whose key occurs at no earlier position
FirstOccurrences(raw) ==
    {i \in 1..Len(raw) : \A j \in 1..(i - 1) : DiagKey(raw[j]) # DiagKey(raw[i])}

\* the n-th smallest element of a set of positions
NthOf(S, n) == CHOOSE i \in S : Cardinality({j \in S : j < i}) = n - 1

\* C3: the returned list holds no two diagnostics with the same
\* (file, line, code, message); it is the concatenation of the checkers'
\* outputs with every later duplicate removed, first occurrences in order.
C3_DedupFirstOccurrence ==
    phase = "done" =>
        LET raw == RawDiagnostics
            firsts == FirstOccurrences(raw)
        IN  /\ \A i, j \in 1..Len(diagnostics) :
                  i # j => DiagKey(diagnostics[i]) # DiagKey(diagnostics[j])
            /\ Len(diagnostics) = Cardinality(firsts)
            /\ \A n \in 1..Len(diagnostics) : diagnostics[n] = raw[NthOf(firsts, n)]
            /\ {DiagKey(d) : d \in Range(diagnostics)} = {DiagKey(d) : d \in Range(raw)}

\* two checkers' outputs where a duplicate was dropped
C3_Witness ==
    /\ phase = "done"
    /\ Len(RawDiagnostics) > Len(diagnostics)
    /\ Len(diagnostics) >= 2
    /\ \E c1, c2 \in {d.code : d \in Range(diagnostics)} : c1 # c2

\* the index without the symbols of the other language bucket
SameLanguage(s) ==
    _get_language_from_path(s.file_path) = _get_language_from_path(current_file)

\* C4: language isolation -- every diagnostic analyze returns is also
\* returned when the repo symbols of the other language bucket are absent.
C4_LanguageIsolation ==
    phase = "done" =>
        Range(diagnostics) \subseteq
            Range(AnalyzeDiagnostics(buffer_refs, buffer_symbols,
                                     SelectSeq(repo_symbols, SameLanguage), current_file))

-----------------------------------------------------------------------------
(* Specification SpecType: check_type_mismatch on bounded inputs           *)

ArrayWrite(name, line, index_value, inferred_type, rhs_name) ==
    [Reference(name, "array_write", line)
        EXCEPT !.index_value = index_value, !.inferred_type = inferred_type,
               !.rhs_name = rhs_name]

TypeRefUniverse(cur_file) ==
    IF IsPythonBuffer(cur_file)
    THEN {Reference("total", "read", 5), Reference("count", "read", 6),
          ArrayAccess("total", 7, Some(0))}
    ELSE {ArrayAccess("arr", 5, Some(0)), ArrayAccess("total", 6, None),
          \* arr[0] = 1;  and  arr[1] = total;
          ArrayWrite("arr", 7, Some(0), Some("int"), None),
          ArrayWrite("arr", 8, Some(1), None, Some("total"))}

TypeBufferUniverse(cur_file) ==
    IF IsPythonBuffer(cur_file)
    THEN {\* total = compute()
          Symbol("total", "variable", None, cur_file, 1),
          \* total = 5
          Symbol("total", "variable", Some("int"), cur_file, 2),
          \* count: float = 0.5
          Symbol("count", "variable", Some("float"), cur_file, 3)}
    ELSE {\* extern int arr[10];
          ArraySymbol("arr", Some("int"), cur_file, 1, Some(10), TRUE),
          \* char arr[5];
          ArraySymbol("arr", Some("char"), cur_file, 2, Some(5), FALSE),
          \* extern float total;
          [Symbol("total", "variable", Some("float"), cur_file, 3) EXCEPT !.is_extern = TRUE]}

TypeRepoUniverse ==
    {\* total: int = 0
     Symbol("total", "variable", Some("int"), "util.py", 3),
     \* total = compute()
     Symbol("total", "variable", None, "other.py", 4),
     \* def count(): ...
     FunctionSymbol("count", "util.py", 8, << >>, FALSE),
     \* char arr[5];
     ArraySymbol("arr", Some("char"), "lib.c", 3, Some(5), FALSE),
     \* extern int arr[10];
     ArraySymbol("arr", Some("int"), "lib.h", 1, Some(10), TRUE),
     \* float total;
     Symbol("total", "variable", Some("float"), "lib.c", 4)}

InitType ==
    /\ current_file \in BufferFiles
    /\ buffer_refs \in SeqsUpTo(TypeRefUniverse(current_file), MaxRefs)
    /\ buffer_symbols \in SeqsUpTo(TypeBufferUniverse(current_file), MaxBufSyms)
    /\ repo_symbols \in SeqsUpTo(TypeRepoUniverse, MaxRepoSyms)
    /\ diagnostics = << >>
    /\ phase = "input"
    /\ buffer_tree = << >>
    /\ ServerUnused

RunType ==
    /\ phase = "input"
    /\ diagnostics' = check_type_mismatch(buffer_refs, buffer_symbols, repo_symbols,
                                          current_file)
    /\ phase' = "done"
    /\ UNCHANGED <<current_file, buffer_refs, buffer_symbols, repo_symbols, buffer_tree>>
    /\ UNCHANGED serverVars

NextType == RunType

SpecType == InitType /\ [][NextType]_vars

\* the buffer gives name a type: a reference with an inferred literal type or
\* a buffer symbol with a declared or inferred type
BufferSideTyped(name) ==
    \/ \E r \in Range(buffer_refs) : r.name = name /\ Truthy(r.inferred_type)
    \/ \E b \in Range(buffer_symbols) : b.name = name /\ Truthy(b.type)

\* the canonical repo symbol of name exists and has a type
CanonicalTyped(name) ==
    LET repo_by_name == RepoByName(repo_symbols, current_file)
    IN  name \in DOMAIN repo_by_name /\ Truthy(repo_by_name[name].type)

\* d reports a cross-file type mismatch of name (declaration or use level)
IsCrossFileMismatchOf(d, name) ==
    /\ d.code = "SNIPE_TYPE_MISMATCH"
    /\ StartsWith(d.message, "'" \o name \o "' is declared as ")

\* C5: no cross-file SNIPE_TYPE_MISMATCH is emitted for a name whose buffer
\* side or whose canonical repo symbol has no type.
C5_NoTypeNoMismatch ==
    phase = "done" =>
        \A name \in {r.name : r \in Range(buffer_refs)}
                    \cup {b.name : b \in Range(buffer_symbols)} :
            (~BufferSideTyped(name) \/ ~CanonicalTyped(name)) =>
                \A d \in Range(diagnostics) : ~IsCrossFileMismatchOf(d, name)

-----------------------------------------------------------------------------
(* server.py and parser/repo_parser.py: the repository index               *)
(*                                                                         *)
(* FastAPI runs the `def` endpoints on a thread pool, so requests run on   *)
(* threads that share the module globals _repo_path and _repo_symbols and  *)
(* the file data/repo_symbols.json.  Each handler is a sequence of steps,  *)
(* one per access to shared state; a thread's record holds its program     *)
(* counter and locals.  The endpoints that touch neither the index nor the *)
(* snapshot (/explain, /fix, /rules, /health, /save_diagnostics) are not   *)
(* part of the model.                                                      *)

NumThreads == 2

MaxVersion == 1

MaxRequests == 3

Threads == 1..NumThreads

\* workspace directories that exist; /wsE holds no file of a supported language
Directories == {"/wsA", "/wsB", "/wsE"}

\* the workspace whose files the user edits while the server runs
EditedDirectories == {"/wsA"}

\* repo_path values of requests; "/nodir" does not exist, "/wsA/" is /wsA
\* written with a trailing slash
AnalyzeRoots == {"/wsA", "/wsB", "/nodir"}

QueryRoots == {"/wsA", "/wsA/", "/nodir", ""}

\* str(Path(p).resolve()) on an absolute path: a trailing slash is dropped
Resolve(p) == IF Len(p) > 1 /\ EndsWith(p, "/") THEN SubSeq(p, 1, Len(p) - 1) ELSE p

\* Path(p).is_dir()
IsDir(p) == Resolve(p) \in Directories

\* what build_repo_symbol_table extracts from a directory in its state v
\* (lines 39-59): the files differ per workspace and change with every edit
ScanResult(root, v) ==
    IF root = "/wsA"
    THEN <<ArraySymbol("arr", Some("int"), "lib.c", 3, Some(5 + v), FALSE)>>
    ELSE IF root = "/wsE" THEN << >>
    ELSE <<ArraySymbol("arr", Some("char"), "lib.c", 3, Some(3 + v), FALSE)>>

\* json.dump(data, f): the document as the sequence of chunks written
OpenBracket == [tok |-> "[", sym |-> None]

CloseBracket == [tok |-> "]", sym |-> None]

JsonDocument(data) ==
    <<OpenBracket>> \o [i \in 1..Len(data) |-> [tok |-> "sym", sym |-> Some(data[i])]]
    \o <<CloseBracket>>

\* a write of one chunk at the writer's own file offset (offset counts chunks);
\* a gap left by a truncation of another writer reads as NUL bytes
NulChunk == [tok |-> "NUL", sym |-> None]

WriteAt(content, offset, chunk) ==
    [i \in 1..(IF offset + 1 > Len(content) THEN offset + 1 ELSE Len(content)) |->
        IF i = offset + 1 THEN chunk
        ELSE IF i <= Len(content) THEN content[i]
        ELSE NulChunk]

\* the buffer of the analyze requests: main.c reading arr[4]
RequestFile == "/wsA/main.c"

RequestRefs == <<ArrayAccess("arr", 1, Some(4))>>

RequestSymbols == << >>

\* a thread of the pool: its position in the handler and the handler's locals
\* (wrote: the request has assigned a new value to _repo_path or _repo_symbols)
IdleThread ==
    [pc |-> "idle", op |-> "none", raw |-> "", key |-> "", data |-> << >>,
     result |-> << >>, offset |-> 0, wrote |-> FALSE]

\* last_op: the last request that ended, its status, and whether it assigned
\* a new value to the cached root or the cached list
NoOp == [op |-> "none", raw |-> "", status |-> 0, wrote |-> FALSE]

InitServer ==
    /\ current_file = ""
    /\ buffer_refs = << >>
    /\ buffer_symbols = << >>
    /\ repo_symbols = << >>
    /\ diagnostics = << >>
    /\ phase = "input"
    /\ buffer_tree = << >>
    /\ _repo_path = None
    /\ _repo_symbols = << >>
    /\ symbols_file = None
    /\ diagnostics_file = [d \in Directories |-> None]
    /\ disk = [d \in Directories |-> 0]
    /\ last_op = NoOp
    /\ threads = [t \in Threads |-> IdleThread]
    /\ requests = 0

\* a request arrives and is handed to thread t, the first free thread of the pool
Arrives(t) ==
    /\ threads[t].pc = "idle"
    /\ \A u \in 1..(t - 1) : threads[u].pc # "idle"
    /\ requests < MaxRequests
    /\ requests' = requests + 1

\* a request is accepted by thread t: its record is set up
Accept(t, op, raw, key, pc) ==
    threads' = [threads EXCEPT ![t] =
                    [IdleThread EXCEPT !.pc = pc, !.op = op, !.raw = raw, !.key = key]]

\* the handler of thread t returns (or raises) with an HTTP status
Respond(t, status, wrote) ==
    /\ last_op' = [op |-> threads[t].op, raw |-> threads[t].raw, status |-> status,
                   wrote |-> wrote]
    /\ threads' = [threads EXCEPT ![t] = IdleThread]

\* a request refused with HTTPException(status_code=400) at the top of its handler
Refuse(t, op, raw) ==
    /\ last_op' = [op |-> op, raw |-> raw, status |-> 400, wrote |-> FALSE]
    /\ UNCHANGED threads

\* analyze, lines 110-112
AnalyzeStart(t, raw) ==
    /\ Arrives(t)
    /\ IF ~IsDir(Resolve(raw)) THEN Refuse(t, "analyze", raw)
       ELSE /\ Accept(t, "analyze", raw, Resolve(raw), "ensure")
            /\ UNCHANGED last_op
    /\ UNCHANGED <<checkerVars, _repo_path, _repo_symbols, symbols_file,
                   diagnostics_file, disk>>

\* refresh, lines 163-167
RefreshStart(t, raw) ==
    /\ Arrives(t)
    /\ IF ~IsDir(Resolve(raw)) THEN Refuse(t, "refresh", raw)
       ELSE /\ Accept(t, "refresh", raw, Resolve(raw), "scan")
            /\ UNCHANGED last_op
    /\ UNCHANGED <<checkerVars, _repo_path, _repo_symbols, symbols_file,
                   diagnostics_file, disk>>

\* get_symbols, lines 199-201 (the path is used as given, not resolved)
GetSymbolsStart(t, raw) ==
    /\ Arrives(t)
    /\ IF raw = "" THEN Refuse(t, "get_symbols", raw)
       ELSE /\ Accept(t, "get_symbols", raw, raw, "ensure")
            /\ UNCHANGED last_op
    /\ UNCHANGED <<checkerVars, _repo_path, _repo_symbols, symbols_file,
                   diagnostics_file, disk>>

\* get_graph, lines 211-215
GetGraphStart(t, raw) ==
    /\ Arrives(t)
    /\ IF raw = "" THEN Refuse(t, "get_graph", raw)
       ELSE /\ Accept(t, "get_graph", raw, raw, "ensure")
            /\ UNCHANGED last_op
    /\ UNCHANGED <<checkerVars, _repo_path, _repo_symbols, symbols_file,
                   diagnostics_file, disk>>

\* the test of _ensure_repo_symbols, line 90
CacheMisses(repo_path) == _repo_path # Some(repo_path) \/ _repo_symbols = << >>

\* _ensure_repo_symbols, lines 90-92: on a miss the root is stored at once,
\* before the scan (no call, hence no thread switch, lies between 90 and 91)
EnsureCheck(t) ==
    /\ threads[t].pc = "ensure"
    /\ IF CacheMisses(threads[t].key)
       THEN /\ _repo_path' = Some(threads[t].key)
            /\ threads' = [threads EXCEPT
                    ![t].pc = "scan",
                    ![t].wrote = @ \/ _repo_path # Some(threads[t].key)]
       ELSE /\ threads' = [threads EXCEPT ![t].pc = "ensure_return"]
            /\ UNCHANGED _repo_path
    /\ UNCHANGED <<checkerVars, _repo_symbols, symbols_file, diagnostics_file, disk,
                   last_op, requests>>

\* where build_repo_symbol_table returns to
AfterBuild(op) == IF op = "refresh" THEN "refresh_assign" ELSE "ensure_assign"

\* build_repo_symbol_table, lines 35-63: [] for a path that is no directory
\* (nothing is written then); else the symbols of the files as they are now,
\* and open(out, "w") truncates the snapshot file
Scan(t) ==
    /\ threads[t].pc = "scan"
    /\ IF ~IsDir(threads[t].key)
       THEN /\ threads' = [threads EXCEPT ![t].data = << >>,
                                          ![t].pc = AfterBuild(threads[t].op)]
            /\ UNCHANGED symbols_file
       ELSE /\ threads' = [threads EXCEPT
                    ![t].data = ScanResult(Resolve(threads[t].key),
                                           disk[Resolve(threads[t].key)]),
                    ![t].offset = 0,
                    ![t].pc = "dump"]
            /\ symbols_file' = Some(<< >>)
    /\ UNCHANGED <<checkerVars, _repo_path, _repo_symbols, diagnostics_file, disk,
                   last_op, requests>>

\* build_repo_symbol_table raising before anything is written (OSError from
\* mkdir or open at lines 62-63, an unreadable directory in rglob at line 41):
\* the exception leaves the handler and the request ends with status 500
ScanFails(t) ==
    /\ threads[t].pc = "scan"
    /\ IsDir(threads[t].key)
    /\ Respond(t, 500, threads[t].wrote)
    /\ UNCHANGED <<checkerVars, _repo_path, _repo_symbols, symbols_file,
                   diagnostics_file, disk, requests>>

\* line 64: json.dump fills the file buffer, which is written out when full
WriteChunk(t) ==
    /\ threads[t].pc = "dump"
    /\ threads[t].offset < Len(JsonDocument(threads[t].data)) - 1
    /\ symbols_file' =
         Some(WriteAt(Val(symbols_file), threads[t].offset,
                      JsonDocument(threads[t].data)[threads[t].offset + 1]))
    /\ threads' = [threads EXCEPT ![t].offset = @ + 1]
    /\ UNCHANGED <<checkerVars, _repo_path, _repo_symbols, diagnostics_file, disk,
                   last_op, requests>>

\* end of the with block, lines 64-65: the rest of the buffer is written, the
\* file is closed and the table is returned to the caller
WriteClose(t) ==
    /\ threads[t].pc = "dump"
    /\ threads[t].offset = Len(JsonDocument(threads[t].data)) - 1
    /\ symbols_file' =
         Some(WriteAt(Val(symbols_file), threads[t].offset,
                      JsonDocument(threads[t].data)[threads[t].offset + 1]))
    /\ threads' = [threads EXCEPT ![t].offset = 0, ![t].pc = AfterBuild(threads[t].op)]
    /\ UNCHANGED <<checkerVars, _repo_path, _repo_symbols, diagnostics_file, disk,
                   last_op, requests>>

\* _ensure_repo_symbols, line 93
EnsureAssign(t) ==
    /\ threads[t].pc = "ensure_assign"
    /\ _repo_symbols' = threads[t].data
    /\ threads' = [threads EXCEPT ![t].pc = "ensure_return", ![t].data = << >>,
                                  ![t].wrote = @ \/ _repo_symbols # threads[t].data]
    /\ UNCHANGED <<checkerVars, _repo_path, symbols_file, diagnostics_file, disk,
                   last_op, requests>>

\* where _ensure_repo_symbols returns to
AfterEnsure(op) == IF op = "analyze" THEN "analyze_run" ELSE "query_return"

\* _ensure_repo_symbols, line 94: the global is read again for the result
EnsureReturn(t) ==
    /\ threads[t].pc = "ensure_return"
    /\ threads' = [threads EXCEPT ![t].result = _repo_symbols,
                                  ![t].pc = AfterEnsure(threads[t].op)]
    /\ UNCHANGED <<checkerVars, _repo_path, _repo_symbols, symbols_file,
                   diagnostics_file, disk, last_op, requests>>

\* analyze, lines 114-157: parse the buffer, run the checkers, deduplicate,
\* write .snipe/diagnostics.json and return the response
AnalyzeRun(t) ==
    /\ threads[t].pc = "analyze_run"
    /\ current_file' = RequestFile
    /\ buffer_refs' = RequestRefs
    /\ buffer_symbols' = RequestSymbols
    /\ repo_symbols' = threads[t].result
    /\ diagnostics' = AnalyzeDiagnostics(RequestRefs, RequestSymbols, threads[t].result,
                                         RequestFile)
    /\ phase' = "done"
    /\ diagnostics_file' = [diagnostics_file EXCEPT ![threads[t].key] = Some(diagnostics')]
    /\ Respond(t, 200, threads[t].wrote)
    /\ UNCHANGED <<buffer_tree, _repo_path, _repo_symbols, symbols_file, disk, requests>>

\* refresh, line 170
RefreshAssignSymbols(t) ==
    /\ threads[t].pc = "refresh_assign"
    /\ _repo_symbols' = threads[t].data
    /\ threads' = [threads EXCEPT ![t].pc = "refresh_assign_path",
                                  ![t].wrote = @ \/ _repo_symbols # threads[t].data]
    /\ UNCHANGED <<checkerVars, _repo_path, symbols_file, diagnostics_file, disk,
                   last_op, requests>>

\* refresh, lines 171-173
RefreshAssignPath(t) ==
    /\ threads[t].pc = "refresh_assign_path"
    /\ _repo_path' = Some(threads[t].key)
    /\ Respond(t, 200, threads[t].wrote \/ _repo_path # Some(threads[t].key))
    /\ UNCHANGED <<checkerVars, _repo_symbols, symbols_file, diagnostics_file, disk,
                   requests>>

\* get_symbols, line 202, and get_graph, lines 217-230 (the diagnostics file
\* is read and the graph is rendered from the symbols; nothing is stored)
QueryReturn(t) ==
    /\ threads[t].pc = "query_return"
    /\ Respond(t, 200, threads[t].wrote)
    /\ UNCHANGED <<checkerVars, _repo_path, _repo_symbols, symbols_file,
                   diagnostics_file, disk, requests>>

\* the user saves a file of a workspace: a later scan finds other symbols
EditRepo(root) ==
    /\ disk[root] < MaxVersion
    /\ disk' = [disk EXCEPT ![root] = @ + 1]
    /\ UNCHANGED <<checkerVars, _repo_path, _repo_symbols, symbols_file,
                   diagnostics_file, last_op, threads, requests>>

\* Specification SpecServer: requests are served one at a time by a single
\* thread; a rebuild may fail.
NextServer ==
    \/ \E raw \in AnalyzeRoots : AnalyzeStart(1, raw)
    \/ \E raw \in AnalyzeRoots : RefreshStart(1, raw)
    \/ \E raw \in QueryRoots : GetSymbolsStart(1, raw)
    \/ \E raw \in QueryRoots : GetGraphStart(1, raw)
    \/ EnsureCheck(1)
    \/ Scan(1)
    \/ ScanFails(1)
    \/ WriteChunk(1)
    \/ WriteClose(1)
    \/ EnsureAssign(1)
    \/ EnsureReturn(1)
    \/ AnalyzeRun(1)
    \/ RefreshAssignSymbols(1)
    \/ RefreshAssignPath(1)
    \/ QueryReturn(1)
    \/ \E root \in EditedDirectories : EditRepo(root)

SpecServer == InitServer /\ [][NextServer]_vars

\* Specification SpecConcurrent: the threads of the pool serve requests at
\* the same time; every step of a handler between two accesses to the shared
\* state may interleave with the steps of the others.
NextConcurrent ==
    \/ \E t \in Threads, raw \in AnalyzeRoots : AnalyzeStart(t, raw)
    \/ \E t \in Threads, raw \in AnalyzeRoots : RefreshStart(t, raw)
    \/ \E t \in Threads, raw \in QueryRoots : GetSymbolsStart(t, raw)
    \/ \E t \in Threads, raw \in QueryRoots : GetGraphStart(t, raw)
    \/ \E t \in Threads : EnsureCheck(t)
    \/ \E t \in Threads : Scan(t)
    \/ \E t \in Threads : WriteChunk(t)
    \/ \E t \in Threads : WriteClose(t)
    \/ \E t \in Threads : EnsureAssign(t)
    \/ \E t \in Threads : EnsureReturn(t)
    \/ \E t \in Threads : AnalyzeRun(t)
    \/ \E t \in Threads : RefreshAssignSymbols(t)
    \/ \E t \in Threads : RefreshAssignPath(t)
    \/ \E t \in Threads : QueryReturn(t)
    \/ \E root \in EditedDirectories : EditRepo(root)

SpecConcurrent == InitServer /\ [][NextConcurrent]_vars

-----------------------------------------------------------------------------
(* Claims about the repository index                                       *)

\* the results a full scan of a root can have (one per state of its files);
\* a path that is no directory scans to the empty list
ScansOf(root) ==
    IF IsDir(root) THEN {ScanResult(Resolve(root), v) : v \in 0..MaxVersion}
    ELSE {<< >>}

\* C6: with requests served one at a time, failed ones included, the symbol
\* list an analyze for workspace root R hands to the checkers is the result
\* of one full scan of R, never the list scanned from another root.
C6_AnalyzeUsesScanOfItsRoot ==
    \A t \in Threads :
        threads[t].pc = "analyze_run" /\ threads[t].op = "analyze"
            => \E v \in 0..MaxVersion :
                   threads[t].result = ScanResult(threads[t].key, v)

\* C7: with requests on several threads, every request that reads the cache
\* gets a root and a list that belong together: the list it is served for
\* its (existing) root is the complete result of one scan of that root.
C7_ReadersSeeRootWithItsList ==
    \A t \in Threads :
        threads[t].pc \in {"analyze_run", "query_return"} /\ IsDir(threads[t].key)
            => threads[t].result \in ScansOf(threads[t].key)

\* a scan (with the write of its snapshot) is running on thread t
ScanInFlight(t) == threads[t].pc \in {"scan", "dump"}

\* C8: rebuilds are single-flight: at no time are two repository scans
\* running.
C8_SingleFlight ==
    Cardinality({t \in Threads : ScanInFlight(t)}) <= 1

\* the complete documents the snapshot file can hold
CompleteDocuments ==
    {JsonDocument(data) : data \in UNION {ScansOf(root) : root \in Directories}}

\* C9: at every moment repo_symbols.json is absent or holds one complete
\* document, never an empty, truncated or interleaved one.
C9_SnapshotAlwaysComplete ==
    IsNone(symbols_file) \/ Val(symbols_file) \in CompleteDocuments

\* C10: an operation given a root that is no existing directory ends with a
\* 4xx status and has not assigned the cached root or the cached list.
C10_InvalidRootRefused ==
    last_op.op \in {"analyze", "refresh", "get_symbols", "get_graph"}
        /\ ~IsDir(last_op.raw)
        => last_op.status \in 400..499 /\ ~last_op.wrote

-----------------------------------------------------------------------------
(* Claims about analyze as a whole                                         *)

\* thread t completes an analyze in this step
AnalyzeCompletes(t) == threads[t].pc = "analyze_run" /\ threads'[t].pc = "idle"

-----------------------------------------------------------------------------
(* Specification of the unused-declaration checkers                        *)

MaxExterns == 2

UnusedFiles == {"/ws/main.c", "/ws/lib.h", "/ws/app.py"}

ImportRef(line, names) ==
    [Reference("__import__", "import", line) EXCEPT !.imported_names = Some(names)]

ExternSymbol(name, kind, type, file_path, line) ==
    [Symbol(name, kind, type, file_path, line) EXCEPT !.is_extern = TRUE]

UnusedRefUniverse(cur_file) ==
    IF IsPythonBuffer(cur_file)
    THEN {ImportRef(1, <<"os", "sys">>), Reference("os", "read", 2)}
    ELSE {\* log_msg();   counter[0]   p.x
          Call("log_msg", 5, 0), ArrayAccess("counter", 6, Some(0)),
          MemberAccess("p", 7, "x")}

UnusedBufferUniverse(cur_file) ==
    IF IsPythonBuffer(cur_file)
    THEN {Symbol("os", "variable", None, cur_file, 3)}
    ELSE {\* extern int counter[4];  declared on line 1 and again on line 2
          ExternSymbol("counter", "array", Some("int"), cur_file, 1),
          ExternSymbol("counter", "array", Some("int"), cur_file, 2),
          \* extern void log_msg(void);
          ExternSymbol("log_msg", "function", Some("void"), cur_file, 3),
          \* int total;
          Symbol("total", "variable", Some("int"), cur_file, 4)}

InitUnused ==
    /\ current_file \in UnusedFiles
    /\ buffer_refs \in SeqsUpTo(UnusedRefUniverse(current_file), MaxRefs)
    /\ buffer_symbols \in SeqsUpTo(UnusedBufferUniverse(current_file), MaxExterns)
    /\ repo_symbols = << >>
    /\ diagnostics = << >>
    /\ phase = "input"
    /\ buffer_tree = << >>
    /\ ServerUnused

RunUnused ==
    /\ phase = "input"
    /\ diagnostics' = check_unused_externs(buffer_refs, buffer_symbols, repo_symbols,
                                           current_file)
                      \o check_dead_imports(buffer_refs, buffer_symbols, repo_symbols,
                                            current_file)
    /\ phase' = "done"
    /\ UNCHANGED <<current_file, buffer_refs, buffer_symbols, repo_symbols, buffer_tree>>
    /\ UNCHANGED serverVars

NextUnused == RunUnused

SpecUnused == InitUnused /\ [][NextUnused]_vars

IsCBuffer(cur_file) == EndsWith(cur_file, ".c") \/ EndsWith(cur_file, ".h")

\* the extern symbols of the buffer whose name appears in no reference, in
\* declaration order
UnreferencedExterns ==
    SelectSeq(buffer_symbols,
              LAMBDA s : s.is_extern /\ \A r \in Range(buffer_refs) : r.name # s.name)

UnusedExternDiagnostics ==
    SelectSeq(diagnostics, LAMBDA d : d.code = "SNIPE_UNUSED_EXTERN")

\* C12: for a C buffer the SNIPE_UNUSED_EXTERN diagnostics are, one for one
\* and in order, the extern symbols whose name appears in no reference, each
\* a WARNING at the symbol's declaration line; a referenced extern gets none.
C12_UnusedExterns ==
    (phase = "done" /\ IsCBuffer(current_file)) =>
        /\ Len(UnusedExternDiagnostics) = Len(UnreferencedExterns)
        /\ \A i \in 1..Len(UnreferencedExterns) :
              /\ i <= Len(UnusedExternDiagnostics)
              /\ UnusedExternDiagnostics[i].line = UnreferencedExterns[i].line
              /\ UnusedExternDiagnostics[i].file = current_file
              /\ UnusedExternDiagnostics[i].severity = "WARNING"
              /\ UnusedExternDiagnostics[i].message
                     = UnusedExternMessage(UnreferencedExterns[i].name)

\* a C buffer with one extern that only a non-call reference uses and one
\* extern nothing uses: exactly the second is reported
C12_Witness ==
    /\ phase = "done"
    /\ IsCBuffer(current_file)
    /\ Len(UnreferencedExterns) = 1
    /\ Len(UnusedExternDiagnostics) = 1
    /\ \E s \in Range(buffer_symbols), r \in Range(buffer_refs) :
          s.is_extern /\ r.name = s.name /\ r.kind # "call"

-----------------------------------------------------------------------------
(* Specification of the undefined-symbol checker                           *)

\* The references are the kinds the extractor emits for the language: read
\* references exist in Python buffers only.
UndefinedRefUniverse(cur_file) ==
    IF IsPythonBuffer(cur_file)
    THEN {\* import os      from m import *
          ImportRef(1, <<"os">>), ImportRef(2, <<"*">>),
          Reference("os", "read", 3), Reference("helper", "read", 4),
          Reference("total", "read", 5), Reference("print", "read", 6),
          Reference("self", "read", 7),
          Call("greet", 8, 0), Call("missing", 9, 0), Call("obj.method", 10, 0)}
    ELSE {Call("helper", 4, 0), Call("printf", 5, 1), Call("greet", 6, 0),
          Call("local_fn", 7, 0), ArrayAccess("table", 8, Some(0))}

UndefinedBufferUniverse(cur_file) ==
    IF IsPythonBuffer(cur_file)
    THEN {Symbol("total", "variable", Some("int"), cur_file, 1)}
    ELSE {FunctionSymbol("local_fn", cur_file, 1, << >>, FALSE)}

UndefinedRepoUniverse ==
    {FunctionSymbol("greet", "util.py", 2, << >>, FALSE),
     FunctionSymbol("greet", "util.c", 2, << >>, FALSE)}

InitUndefined ==
    /\ current_file \in BufferFiles
    /\ buffer_refs \in SeqsUpTo(UndefinedRefUniverse(current_file), MaxRefs)
    /\ buffer_symbols \in SeqsUpTo(UndefinedBufferUniverse(current_file), MaxBufSyms)
    /\ repo_symbols \in SeqsUpTo(UndefinedRepoUniverse, MaxRepoSyms)
    /\ diagnostics = << >>
    /\ phase = "input"
    /\ buffer_tree = << >>
    /\ ServerUnused

RunUndefined ==
    /\ phase = "input"
    /\ diagnostics' = check_undefined_symbols(buffer_refs, buffer_symbols, repo_symbols,
                                              current_file)
    /\ phase' = "done"
    /\ UNCHANGED <<current_file, buffer_refs, buffer_symbols, repo_symbols, buffer_tree>>
    /\ UNCHANGED serverVars

NextUndefined == RunUndefined

SpecUndefined == InitUndefined /\ [][NextUndefined]_vars

\* the names the claim lists as known: buffer symbols, repo index, imported
\* names, and the checker's name tables of the buffer's language
KnownNames ==
    {b.name : b \in Range(buffer_symbols)}
    \cup {s.name : s \in Range(repo_symbols)}
    \cup UNION {Range(Val(r.imported_names)) :
                r \in {x \in Range(buffer_refs) : x.kind = "import"}}
    \cup (IF IsPythonBuffer(current_file)
          THEN PYTHON_BUILTINS \cup PYTHON_COMMON_GLOBALS
          ELSE C_STDLIB_FUNCTIONS)

HasWildcardImport ==
    \E r \in Range(buffer_refs) :
        r.kind = "import" /\ "*" \in Range(Val(r.imported_names))

\* the reference is a read or a call of an unknown name, and not a call of a
\* dotted method target
IsUndefinedUse(r) ==
    /\ r.kind \in {"read", "call"}
    /\ r.name \notin KnownNames
    /\ ~(r.kind = "call" /\ Contains(r.name, "."))

UndefinedDiagnostics ==
    SelectSeq(diagnostics, LAMBDA d : d.code = "SNIPE_UNDEFINED_SYMBOL")

\* the diagnostic reports reference r
Reports(d, r) ==
    /\ d.file = current_file
    /\ d.line = r.line
    /\ d.severity = "WARNING"
    /\ d.message = (IF r.kind = "read" THEN UndefinedReadMessage(r.name)
                    ELSE UndefinedCallMessage(r.name,
                            IF IsPythonBuffer(current_file) THEN "Python builtins"
                            ELSE "the C standard library"))

\* C13: without a wildcard import, every read or call of a name that is in
\* none of the known sets gets exactly one SNIPE_UNDEFINED_SYMBOL WARNING,
\* and references of known names and dotted method calls get none.
C13_UndefinedSymbols ==
    (phase = "done" /\ ~HasWildcardImport) =>
        /\ Len(UndefinedDiagnostics)
              = Cardinality({i \in DOMAIN buffer_refs : IsUndefinedUse(buffer_refs[i])})
        /\ \A i \in DOMAIN buffer_refs :
              LET r == buffer_refs[i]
              IN  Cardinality({j \in DOMAIN UndefinedDiagnostics :
                                   Reports(UndefinedDiagnostics[j], r)})
                  = IF IsUndefinedUse(r)
                    THEN Cardinality({k \in DOMAIN buffer_refs : buffer_refs[k] = r})
                    ELSE 0

\* a use of an unknown name beside a use of a known name (or a dotted method
\* call): one diagnostic, for the unknown one
C13_Witness ==
    /\ phase = "done"
    /\ ~HasWildcardImport
    /\ Len(UndefinedDiagnostics) = 1
    /\ \E r \in Range(buffer_refs) : IsUndefinedUse(r)
    /\ \E r \in Range(buffer_refs) :
          r.kind \in {"read", "call"} /\ ~IsUndefinedUse(r)

-----------------------------------------------------------------------------
(* parser/symbol_extractor.py: extract_references_from_source, Python      *)

\* a tree-sitter Node: its type, its source text, its line, the field name it
\* has in its parent ("" for none) and its children
Node(type, text, line, field, children) ==
    [type |-> type, text |-> text, line |-> line, field |-> field,
     children |-> children]

child_by_field_name(node, field) ==
    LET hits == SelectSeq(node.children, LAMBDA c : c.field = field)
    IN  IF hits = << >> THEN None ELSE Some(Head(hits))

\* _TYPE_MAP.get(node.type)
_infer_type_from_rhs(node) ==
    CASE node.type = "list" -> Some("list")
      [] node.type = "tuple" -> Some("tuple")
      [] node.type = "integer" -> Some("int")
      [] node.type = "float" -> Some("float")
      [] node.type = "string" -> Some("str")
      [] node.type \in {"true", "false"} -> Some("bool")
      [] node.type = "dictionary" -> Some("dict")
      [] OTHER -> None

\* lines 613-628: a call reference named by the text of the function child
WalkPythonCall(node, language) ==
    LET fn == child_by_field_name(node, "function")
        args == child_by_field_name(node, "arguments")
        arg_children ==
            IF IsNone(args) THEN << >>
            ELSE SelectSeq(Val(args).children, LAMBDA c : c.type \notin {"(", ")", ","})
        inferred_arg_types ==
            [i \in 1..Len(arg_children) |-> _infer_type_from_rhs(arg_children[i])]
    IN  IF \/ node.type \notin {"call_expression", "call"}
           \/ language # "python"
           \/ IsNone(fn)
        THEN << >>
        ELSE <<[Reference(Val(fn).text, "call", node.line)
                   EXCEPT !.arg_count = Some(Len(arg_children)),
                          !.arg_types =
                              IF \E i \in DOMAIN inferred_arg_types :
                                     ~IsNone(inferred_arg_types[i])
                              THEN Some(inferred_arg_types) ELSE None]>>

\* lines 686-691: every identifier is a read unless its parent is a call, a
\* function definition, a parameter list or an attribute
WalkIdentifier(node, parent, language) ==
    IF /\ node.type = "identifier"
       /\ language = "python"
       /\ ~IsNone(parent)
       /\ Val(parent).type \notin {"call_expression", "call", "function_definition",
                                   "parameters", "attribute"}
       /\ node.text # ""
       /\ ~StartsWith(node.text, "_")
    THEN <<Reference(node.text, "read", node.line)>>
    ELSE << >>

\* the local name of an aliased_import: its alias, else its name
AliasedLocal(c) ==
    LET alias_node == child_by_field_name(c, "alias")
        name_node == child_by_field_name(c, "name")
    IN  IF ~IsNone(alias_node) THEN <<Val(alias_node).text>>
        ELSE IF ~IsNone(name_node) THEN <<Val(name_node).text>>
        ELSE << >>

\* lines 719-727: the loop over the children of an import_statement
RECURSIVE ImportLoop(_)
ImportLoop(children) ==
    IF children = << >> THEN << >>
    ELSE LET c == Head(children)
         IN  (IF c.type = "dotted_name" THEN <<c.text>>
              ELSE IF c.type = "aliased_import" THEN AliasedLocal(c)
              ELSE << >>) \o ImportLoop(Tail(children))

\* lines 717-733
WalkImport(node, language) ==
    LET imported == ImportLoop(node.children)
    IN  IF node.type # "import_statement" \/ language # "python" \/ imported = << >>
        THEN << >>
        ELSE <<[Reference("__import__", "import", node.line)
                   EXCEPT !.imported_names = Some(imported)]>>

\* lines 739-749: the loop over the children of an import_from_statement;
\* only dotted_name, aliased_import and identifier children add a name
RECURSIVE ImportFromLoop(_, _)
ImportFromLoop(children, module_node) ==
    IF children = << >> THEN << >>
    ELSE LET c == Head(children)
         IN  (IF c.type = "dotted_name" /\ Some(c) # module_node THEN <<c.text>>
              ELSE IF c.type = "aliased_import" THEN AliasedLocal(c)
              ELSE IF c.type = "identifier" /\ Some(c) # module_node THEN <<c.text>>
              ELSE << >>) \o ImportFromLoop(Tail(children), module_node)

\* lines 735-756
WalkImportFrom(node, language) ==
    LET imported == ImportFromLoop(node.children, child_by_field_name(node, "module_name"))
    IN  IF node.type # "import_from_statement" \/ language # "python" \/ imported = << >>
        THEN << >>
        ELSE <<[Reference("__import__", "import", node.line)
                   EXCEPT !.imported_names = Some(imported)]>>

\* _PRINTF_FAMILY, line 638
_PRINTF_FAMILY == {"printf", "fprintf", "sprintf", "snprintf", "scanf", "fscanf", "sscanf"}

\* the conversion characters of the pattern of line 649
ConversionChars ==
    {"d", "i", "o", "u", "x", "X", "e", "E", "f", "F", "g", "G", "a", "A", "c", "s",
     "p", "n", "l", "*"}

\* len(re.findall(r'%(?!%)[diouxXeEfFgGaAcspnl*]', fmt_str)), scanning from
\* position i: a match is a "%" whose next character is not "%" and is a
\* conversion character; the scan resumes after the match, else one further
RECURSIVE CountSpecs(_, _)
CountSpecs(fmt_str, i) ==
    IF i > Len(fmt_str) THEN 0
    ELSE IF /\ SubSeq(fmt_str, i, i) = "%"
            /\ i + 1 <= Len(fmt_str)
            /\ SubSeq(fmt_str, i + 1, i + 1) # "%"
            /\ SubSeq(fmt_str, i + 1, i + 1) \in ConversionChars
         THEN 1 + CountSpecs(fmt_str, i + 2)
         ELSE CountSpecs(fmt_str, i + 1)

num_specs(fmt_str) == CountSpecs(fmt_str, 1)

\* str.strip('"'): leading and trailing double quotes removed
RECURSIVE StripQuotes(_)
StripQuotes(s) ==
    IF s = "" THEN s
    ELSE IF SubSeq(s, 1, 1) = "\"" THEN StripQuotes(SubSeq(s, 2, Len(s)))
    ELSE IF SubSeq(s, Len(s), Len(s)) = "\"" THEN StripQuotes(SubSeq(s, 1, Len(s) - 1))
    ELSE s

\* lines 640-644 without the test of line 641
fmt_arg_idx_Mut(name) == IF name = "snprintf" THEN 2 ELSE 0

\* lines 640-644
fmt_arg_idx(name) ==
    IF name \in {"fprintf", "fscanf", "sprintf", "sscanf"} THEN 1
    ELSE IF name = "snprintf" THEN 2
    ELSE 0

\* lines 629-658: a C call whose function is an identifier gives a call
\* reference and, for the printf family with a string literal at the format
\* position, a format_call reference as well
WalkCCall(node, language) ==
    LET fn == child_by_field_name(node, "function")
        args == child_by_field_name(node, "arguments")
        arg_children ==
            IF IsNone(args) THEN << >>
            ELSE SelectSeq(Val(args).children, LAMBDA c : c.type \notin {"(", ")", ","})
        nargs == Len(arg_children)
        name == Val(fn).text
        idx == fmt_arg_idx(name)
        fmt_node == arg_children[idx + 1]
        fmt_str == StripQuotes(fmt_node.text)
    IN  IF \/ node.type \notin {"call_expression", "call"}
           \/ language # "c"
           \/ IsNone(fn)
        THEN << >>
        ELSE IF Val(fn).type # "identifier" THEN << >>
        ELSE <<[Reference(name, "call", node.line) EXCEPT !.arg_count = Some(nargs)]>>
             \o (IF /\ name \in _PRINTF_FAMILY
                    /\ arg_children # << >>
                    /\ idx < nargs
                    /\ fmt_node.type = "string_literal"
                 THEN <<[Reference(name, "format_call", node.line)
                            EXCEPT !.arg_count = Some(nargs - idx - 1),
                                   !.format_specifiers = Some(num_specs(fmt_str))]>>
                 ELSE << >>)

\* source[i : i + 1] and source[i : j], offsets counted from 0 as in Python
ByteAt(source, i) ==
    IF i >= 0 /\ i < Len(source) THEN SubSeq(source, i + 1, i + 1) ELSE ""

Slice(source, i, j) ==
    SubSeq(source, i + 1, IF j < Len(source) THEN j ELSE Len(source))

IdentStart ==
    {"a", "b", "c", "d", "e", "f", "g", "h", "i", "j", "k", "l", "m", "n", "o", "p",
     "q", "r", "s", "t", "u", "v", "w", "x", "y", "z", "A", "B", "C", "D", "E", "F",
     "G", "H", "I", "J", "K", "L", "M", "N", "O", "P", "Q", "R", "S", "T", "U", "V",
     "W", "X", "Y", "Z", "_"}

DecimalDigits == {"0", "1", "2", "3", "4", "5", "6", "7", "8", "9"}

\* the first offset from i on whose byte is not in the class
RECURSIVE SkipWhile(_, _, _)
SkipWhile(source, i, class) ==
    IF i < Len(source) /\ ByteAt(source, i) \in class
    THEN SkipWhile(source, i + 1, class)
    ELSE i

\* int(digits, 10)
RECURSIVE ParseDecimal(_)
ParseDecimal(digits) ==
    IF digits = "" THEN 0
    ELSE ParseDecimal(SubSeq(digits, 1, Len(digits) - 1)) * 10
         + (CHOOSE d \in 0 .. 9 : ToString(d) = SubSeq(digits, Len(digits), Len(digits)))

\* int(idx_str, 0) of lines 664-667 and 680-683 for a text without prefix
\* (0x, 0o, 0b) or sign: a run of decimal digits that does not start with a
\* zero, or only zeros; anything else raises ValueError and gives None
IndexValue(idx_str) ==
    IF /\ idx_str # ""
       /\ \A k \in 1 .. Len(idx_str) : SubSeq(idx_str, k, k) \in DecimalDigits
       /\ \/ SubSeq(idx_str, 1, 1) # "0"
          \/ \A k \in 1 .. Len(idx_str) : SubSeq(idx_str, k, k) = "0"
    THEN Some(ParseDecimal(idx_str))
    ELSE None

\* lines 659-668: a Python subscript with fields value and subscript (or
\* index) gives an array_access reference
WalkPythonSubscript(node, language) ==
    LET obj == child_by_field_name(node, "value")
        idx == IF IsNone(child_by_field_name(node, "subscript"))
               THEN child_by_field_name(node, "index")
               ELSE child_by_field_name(node, "subscript")
    IN  IF /\ node.type \in {"subscript_expression", "subscript"}
           /\ language = "python"
           /\ ~IsNone(obj)
           /\ ~IsNone(idx)
        THEN <<[Reference(Val(obj).text, "array_access", node.line)
                    EXCEPT !.index_value = IndexValue(Val(idx).text)]>>
        ELSE << >>

\* lines 669-684: a C subscript with fields argument and index (else its
\* first and third child) gives an array_access reference; an
\* array_declarator node gives nothing
WalkCSubscript(node, language) ==
    LET by_field == ~IsNone(child_by_field_name(node, "argument"))
                    /\ ~IsNone(child_by_field_name(node, "index"))
        positional == ~by_field /\ Len(node.children) >= 4
        arr == IF positional THEN Some(node.children[1])
               ELSE child_by_field_name(node, "argument")
        idx == IF positional THEN Some(node.children[3])
               ELSE child_by_field_name(node, "index")
    IN  IF /\ node.type \in {"subscript_expression", "subscript"}
           /\ language = "c"
           /\ ~IsNone(arr)
           /\ ~IsNone(idx)
        THEN <<[Reference(Val(arr).text, "array_access", node.line)
                    EXCEPT !.index_value = IndexValue(Val(idx).text)]>>
        ELSE << >>

\* walk(node), lines 612-828: the references of the node itself, then those
\* of its children in order.  The branches for array writes, member accesses,
\* return statements and annotated assignments fire on node types that the
\* buffers below do not contain.
RECURSIVE walk(_, _, _)
RECURSIVE WalkChildren(_, _, _)
walk(node, parent, language) ==
    WalkPythonCall(node, language) \o WalkCCall(node, language)
    \o WalkPythonSubscript(node, language) \o WalkCSubscript(node, language)
    \o WalkIdentifier(node, parent, language) \o WalkImport(node, language)
    \o WalkImportFrom(node, language) \o WalkChildren(node.children, node, language)

WalkChildren(children, parent, language) ==
    IF children = << >> THEN << >>
    ELSE walk(Head(children), Some(parent), language)
         \o WalkChildren(Tail(children), parent, language)

\* the end of a // comment that was opened before offset i (lines 484-485)
RECURSIVE LineCommentEnd(_, _)
LineCommentEnd(source, i) ==
    IF i < Len(source) /\ ByteAt(source, i) # "\n"
    THEN LineCommentEnd(source, i + 1)
    ELSE i

\* the end of a block comment (lines 491-493)
RECURSIVE BlockCommentScan(_, _)
BlockCommentScan(source, i) ==
    IF i < Len(source) - 1 /\ Slice(source, i, i + 2) # "*/"
    THEN BlockCommentScan(source, i + 1)
    ELSE i

BlockCommentEnd(source, i) ==
    LET j == BlockCommentScan(source, i)
    IN  IF j + 2 < Len(source) THEN j + 2 ELSE Len(source)

\* the end of a string or character literal (lines 500-507): a backslash
\* skips the byte after it
RECURSIVE LiteralEnd(_, _, _)
LiteralEnd(source, i, quote) ==
    IF i >= Len(source) THEN i
    ELSE IF ByteAt(source, i) = "\\" THEN LiteralEnd(source, i + 2, quote)
    ELSE IF ByteAt(source, i) = quote THEN i + 1
    ELSE LiteralEnd(source, i + 1, quote)

\* _get_comment_and_string_ranges_c, the loop of lines 480-510 from offset i
RECURSIVE RangesFrom(_, _)
RangesFrom(source, i) ==
    IF i >= Len(source) THEN << >>
    ELSE IF i < Len(source) - 1 /\ Slice(source, i, i + 2) = "//"
         THEN LET e == LineCommentEnd(source, i + 2)
              IN  <<(<<i, e>>)>> \o RangesFrom(source, e)
    ELSE IF i < Len(source) - 1 /\ Slice(source, i, i + 2) = "/*"
         THEN LET e == BlockCommentEnd(source, i + 2)
              IN  <<(<<i, e>>)>> \o RangesFrom(source, e)
    ELSE IF ByteAt(source, i) \in {"\"", "'"}
         THEN LET e == LiteralEnd(source, i + 1, ByteAt(source, i))
              IN  <<(<<i, e>>)>> \o RangesFrom(source, e)
    ELSE RangesFrom(source, i + 1)

_get_comment_and_string_ranges_c(source) == RangesFrom(source, 0)

_position_in_ranges(pos, ranges) ==
    \E k \in DOMAIN ranges : ranges[k][1] <= pos /\ pos < ranges[k][2]

\* lines 522-532: only a ";" after optional whitespace marks a declarator
_is_array_declarator_context_c(source, match_end) ==
    LET i == SkipWhile(source, match_end, {" ", "\t", "\n", "\r"})
    IN  i < Len(source) /\ ByteAt(source, i) = ";"

\* the whitespace of \s that a TLA+ string can hold
RegexSpace == {" ", "\t", "\n", "\r", "\f"}

\* re.finditer(rb"([a-zA-Z_][a-zA-Z0-9_]*)\s*\[\s*(\d+)\s*\]", source) from
\* offset i: the matches in order, each with its start, its end and its two
\* groups; the search resumes at the end of a match, else one byte further
RECURSIVE SubscriptMatches(_, _)
SubscriptMatches(source, i) ==
    IF i >= Len(source) THEN << >>
    ELSE LET name_end == SkipWhile(source, i + 1, IdentStart \cup DecimalDigits)
             open == SkipWhile(source, name_end, RegexSpace)
             digits == SkipWhile(source, open + 1, RegexSpace)
             digits_end == SkipWhile(source, digits, DecimalDigits)
             close == SkipWhile(source, digits_end, RegexSpace)
         IN  IF /\ ByteAt(source, i) \in IdentStart
                /\ ByteAt(source, open) = "["
                /\ digits_end > digits
                /\ ByteAt(source, close) = "]"
             THEN <<[start |-> i, end |-> close + 1,
                     name |-> Slice(source, i, name_end),
                     index |-> Slice(source, digits, digits_end)]>>
                  \o SubscriptMatches(source, close + 1)
             ELSE SubscriptMatches(source, i + 1)

\* source[: pos].count(b"\n") + 1
LineAt(source, pos) ==
    Cardinality({k \in 0 .. pos - 1 : ByteAt(source, k) = "\n"}) + 1

\* the loop of lines 840-854 over the matches that are left: a match inside a
\* comment or literal, a match in declarator context and a match that is
\* already among the array_access references add nothing
RECURSIVE FallbackLoop(_, _, _, _)
FallbackLoop(matches, source, skip_ranges, existing_refs) ==
    IF matches = << >> THEN << >>
    ELSE LET m == Head(matches)
             key == <<m.name, LineAt(source, m.start), Some(ParseDecimal(m.index))>>
         IN  IF \/ _position_in_ranges(m.start, skip_ranges)
                \/ _is_array_declarator_context_c(source, m.end)
                \/ key \in existing_refs
             THEN FallbackLoop(Tail(matches), source, skip_ranges, existing_refs)
             ELSE <<[Reference(key[1], "array_access", key[2])
                        EXCEPT !.index_value = key[3]]>>
                  \o FallbackLoop(Tail(matches), source, skip_ranges,
                                  existing_refs \cup {key})

\* lines 594-858: the walk of the tree and, for C, the regular-expression
\* pass over the source text, which is the text of the root node.  Buffers
\* whose root carries no text hold nothing of the form name[number].
extract_references_from_source(root_node, language) ==
    LET refs == walk(root_node, None, language)
        source == root_node.text
        existing_refs == {<<r.name, r.line, r.index_value>> :
                            r \in {x \in Range(refs) : x.kind = "array_access"}}
    IN  IF language = "c"
        THEN refs \o FallbackLoop(SubscriptMatches(source, 0), source,
                                  _get_comment_and_string_ranges_c(source),
                                  existing_refs)
        ELSE refs

-----------------------------------------------------------------------------
(* Specification of analyze on the source text of a Python buffer          *)

MaxStatements == 2

Token(type, line) == Node(type, type, line, "", << >>)

Identifier(text, line, field) == Node("identifier", text, line, field, << >>)

\* a dotted_name of one identifier
DottedName(text, line, field) ==
    Node("dotted_name", text, line, field, <<Identifier(text, line, "")>>)

\* name()  as an expression statement
CallStatement(function, line) ==
    Node("expression_statement", function.text \o "()", line, "",
         <<Node("call", function.text \o "()", line, "",
                <<function,
                  Node("argument_list", "()", line, "arguments",
                       <<Token("(", line), Token(")", line)>>)>>)>>)

\* the statements a buffer is made of, as tree-sitter-python parses them
StatementUniverse ==
    {\* import os
     Node("import_statement", "import os", 1, "",
          <<Token("import", 1), DottedName("os", 1, "name")>>),
     \* import numpy as np
     Node("import_statement", "import numpy as np", 2, "",
          <<Token("import", 2),
            Node("aliased_import", "numpy as np", 2, "name",
                 <<DottedName("numpy", 2, "name"), Token("as", 2),
                   Identifier("np", 2, "alias")>>)>>),
     \* from util import greet
     Node("import_from_statement", "from util import greet", 3, "",
          <<Token("from", 3), DottedName("util", 3, "module_name"), Token("import", 3),
            DottedName("greet", 3, "name")>>),
     \* from util import *
     Node("import_from_statement", "from util import *", 4, "",
          <<Token("from", 4), DottedName("util", 4, "module_name"), Token("import", 4),
            Node("wildcard_import", "*", 4, "", <<Token("*", 4)>>)>>),
     \* greet
     Node("expression_statement", "greet", 5, "", <<Identifier("greet", 5, "")>>),
     \* helper()
     CallStatement(Identifier("helper", 6, "function"), 6),
     \* os.getcwd()
     CallStatement(Node("attribute", "os.getcwd", 7, "function",
                        <<Identifier("os", 7, "object"), Token(".", 7),
                          Identifier("getcwd", 7, "attribute")>>), 7)}

Module(statements) == Node("module", "", 1, "", statements)

SourceFile == "/ws/app.py"

SourceRepoUniverse ==
    {FunctionSymbol("greet", "util.py", 2, << >>, FALSE),
     Symbol("util", "variable", None, "pkg.py", 1)}

InitSource ==
    /\ current_file = SourceFile
    /\ buffer_tree \in {Module(s) : s \in SeqsUpTo(StatementUniverse, MaxStatements)}
    /\ buffer_refs = << >>
    /\ buffer_symbols = << >>
    /\ repo_symbols \in SeqsUpTo(SourceRepoUniverse, MaxRepoSyms)
    /\ diagnostics = << >>
    /\ phase = "input"
    /\ ServerUnused

\* analyze, lines 114-143: parse the buffer, run the checkers, deduplicate.
\* The statements of the buffers define no symbol.
RunSource ==
    /\ phase = "input"
    /\ buffer_refs' = extract_references_from_source(buffer_tree, "python")
    /\ diagnostics' = AnalyzeDiagnostics(buffer_refs', buffer_symbols, repo_symbols,
                                         current_file)
    /\ phase' = "done"
    /\ UNCHANGED <<current_file, buffer_symbols, repo_symbols, buffer_tree>>
    /\ UNCHANGED serverVars

NextSource == RunSource

SpecSource == InitSource /\ [][NextSource]_vars

Statements == buffer_tree.children

\* C14: a buffer that contains a wildcard import gets no
\* SNIPE_UNDEFINED_SYMBOL diagnostic from analyze, whatever it reads or calls.
C14_WildcardSuppresses ==
    (/\ phase = "done"
     /\ \E i \in DOMAIN Statements :
           /\ Statements[i].type = "import_from_statement"
           /\ \E j \in DOMAIN Statements[i].children :
                 Statements[i].children[j].type = "wildcard_import")
    => \A d \in Range(diagnostics) : d.code # "SNIPE_UNDEFINED_SYMBOL"


\* the texts of the identifiers in the subtree of node
RECURSIVE IdentifiersIn(_)
IdentifiersIn(node) ==
    (IF node.type = "identifier" THEN {node.text} ELSE {})
    \cup UNION {IdentifiersIn(node.children[i]) : i \in DOMAIN node.children}

IsImportStatement(node) == node.type \in {"import_statement", "import_from_statement"}

\* the name occurs in a statement of the buffer that is not an import
ReferencedOutsideImports(name) ==
    \E i \in DOMAIN Statements :
        ~IsImportStatement(Statements[i]) /\ name \in IdentifiersIn(Statements[i])

DeadImportDiagnostics(line, name) ==
    SelectSeq(diagnostics,
              LAMBDA d : /\ d.code = "SNIPE_DEAD_IMPORT"
                         /\ d.severity = "WARNING"
                         /\ d.file = current_file
                         /\ d.line = line
                         /\ d.message = DeadImportMessage(name))

\* C15: every imported local name other than "*" that no statement outside
\* the imports mentions gets exactly one SNIPE_DEAD_IMPORT WARNING at the
\* line of its import, and a name mentioned elsewhere gets none; the name's
\* own occurrence in the import statement is not a use.
C15_DeadImports ==
    phase = "done" =>
        \A r \in Range(buffer_refs) :
            r.kind = "import" =>
                \A name \in Range(Val(r.imported_names)) \ {"*"} :
                    Len(DeadImportDiagnostics(r.line, name))
                        = IF ReferencedOutsideImports(name) THEN 0 ELSE 1

-----------------------------------------------------------------------------
(* Specification of format calls: extraction and check_format_strings      *)

\* the language the parser is given for the file (server.py line 114)
LanguageOf(cur_file) == IF IsPythonBuffer(cur_file) THEN "python" ELSE "c"

\* name(arguments) as a statement; the node types are those of the grammar
\* of the language
CallOf(name, line, arguments, language) ==
    LET call_type == IF language = "c" THEN "call_expression" ELSE "call"
        commas == [i \in 1..(2 * Len(arguments) - 1) |->
                      IF i % 2 = 1 THEN arguments[(i + 1) \div 2] ELSE Token(",", line)]
    IN  Node("expression_statement", name, line, "",
             <<Node(call_type, name, line, "",
                    <<Identifier(name, line, "function"),
                      Node("argument_list", "", line, "arguments",
                           <<Token("(", line)>>
                           \o (IF arguments = << >> THEN << >> ELSE commas)
                           \o <<Token(")", line)>>)>>)>>)

\* a string literal with its quotes
Literal(text, line, language) ==
    Node(IF language = "c" THEN "string_literal" ELSE "string",
         "\"" \o text \o "\"", line, "", << >>)

Arg(text, line) == Identifier(text, line, "")

FormatStatementUniverse(language) ==
    {\* printf("%d", x);           printf("%d %s", x);
     CallOf("printf", 1, <<Literal("%d", 1, language), Arg("x", 1)>>, language),
     CallOf("printf", 2, <<Literal("%d %s", 2, language), Arg("x", 2)>>, language),
     \* printf("%d%%", pct);       printf(fmt, x);
     CallOf("printf", 3, <<Literal("%d%%", 3, language), Arg("pct", 3)>>, language),
     CallOf("printf", 4, <<Arg("fmt", 4), Arg("x", 4)>>, language),
     \* fprintf(out, "%s", s);     sscanf(line, "%d %d", a);
     CallOf("fprintf", 5, <<Arg("out", 5), Literal("%s", 5, language), Arg("s", 5)>>,
            language),
     CallOf("sscanf", 6, <<Arg("line", 6), Literal("%d %d", 6, language), Arg("a", 6)>>,
            language),
     \* snprintf(buf, n, "%s", s); snprintf(buf, n, "%s");
     CallOf("snprintf", 7,
            <<Arg("buf", 7), Arg("n", 7), Literal("%s", 7, language), Arg("s", 7)>>,
            language),
     CallOf("snprintf", 8, <<Arg("buf", 8), Arg("n", 8), Literal("%s", 8, language)>>,
            language),
     \* log_msg("%d");
     CallOf("log_msg", 9, <<Literal("%d", 9, language)>>, language)}

InitFormat ==
    /\ current_file \in BufferFiles
    /\ buffer_tree \in {Module(s) : s \in SeqsUpTo(FormatStatementUniverse(
                                              LanguageOf(current_file)), MaxStatements)}
    /\ buffer_refs = << >>
    /\ buffer_symbols = << >>
    /\ repo_symbols = << >>
    /\ diagnostics = << >>
    /\ phase = "input"
    /\ ServerUnused

\* the buffer is parsed and check_format_strings runs on its references
RunFormat ==
    /\ phase = "input"
    /\ buffer_refs' = extract_references_from_source(buffer_tree, LanguageOf(current_file))
    /\ diagnostics' = check_format_strings(buffer_refs', buffer_symbols, repo_symbols,
                                           current_file)
    /\ phase' = "done"
    /\ UNCHANGED <<current_file, buffer_symbols, repo_symbols, buffer_tree>>
    /\ UNCHANGED serverVars

NextFormat == RunFormat

SpecFormat == InitFormat /\ [][NextFormat]_vars

\* The number of conversion specifiers of a format string, read left to
\* right: "%%" is an escaped percent and is passed over as a whole, "%" with a
\* conversion character after it is one specifier.
RECURSIVE ConversionCount(_, _)
ConversionCount(fmt, i) ==
    IF i > Len(fmt) THEN 0
    ELSE IF i < Len(fmt) /\ SubSeq(fmt, i, i + 1) = "%%" THEN ConversionCount(fmt, i + 2)
    ELSE IF /\ i < Len(fmt)
            /\ SubSeq(fmt, i, i) = "%"
            /\ SubSeq(fmt, i + 1, i + 1) \in ConversionChars
         THEN 1 + ConversionCount(fmt, i + 2)
    ELSE ConversionCount(fmt, i + 1)

\* the call node of a statement and its arguments without punctuation
CallNodeOf(statement) == statement.children[1]

ArgumentsOf(statement) ==
    SelectSeq(CallNodeOf(statement).children[2].children,
              LAMBDA c : c.type \notin {"(", ")", ","})

\* position of the format argument for the callee, counted from 0
FormatPosition(name) ==
    CASE name \in {"printf", "scanf"} -> 0
      [] name \in {"fprintf", "sprintf", "fscanf", "sscanf"} -> 1
      [] name = "snprintf" -> 2

\* the statement is a printf-family call with a string literal at the format
\* position
IsLiteralFormatCall(statement) ==
    LET name == CallNodeOf(statement).children[1].text
        arguments == ArgumentsOf(statement)
    IN  /\ name \in {"printf", "fprintf", "sprintf", "snprintf", "scanf", "fscanf",
                     "sscanf"}
        /\ Len(arguments) > FormatPosition(name)
        /\ arguments[FormatPosition(name) + 1].type = "string_literal"

\* the specifier count of such a call differs from the number of arguments
\* after the format
CountsDiffer(statement) ==
    LET name == CallNodeOf(statement).children[1].text
        arguments == ArgumentsOf(statement)
        literal == arguments[FormatPosition(name) + 1].text
        fmt == SubSeq(literal, 2, Len(literal) - 1)
    IN  ConversionCount(fmt, 1) # Len(arguments) - FormatPosition(name) - 1

FormatDiagnostics == SelectSeq(diagnostics, LAMBDA d : d.code = "SNIPE_FORMAT_STRING")

\* C16: in a C buffer every printf-family call with a literal format gets
\* exactly one SNIPE_FORMAT_STRING ERROR, on its line, iff its specifier count
\* differs from the number of arguments after the format; other calls, and
\* buffers that are not C, get none.
C16_FormatCalls ==
    phase = "done" =>
        LET offending == {i \in DOMAIN Statements :
                             /\ IsCBuffer(current_file)
                             /\ IsLiteralFormatCall(Statements[i])
                             /\ CountsDiffer(Statements[i])}
        IN  /\ Len(FormatDiagnostics) = Cardinality(offending)
            /\ \A d \in Range(FormatDiagnostics) :
                  /\ d.severity = "ERROR"
                  /\ d.file = current_file
            /\ \A i \in DOMAIN Statements :
                  Cardinality({j \in DOMAIN FormatDiagnostics :
                                   FormatDiagnostics[j].line = Statements[i].line})
                  = Cardinality({k \in offending : Statements[k].line = Statements[i].line})

\* a C buffer with a snprintf call or a sscanf call whose counts differ beside
\* a call whose counts agree: one diagnostic
C16_Witness ==
    /\ phase = "done"
    /\ IsCBuffer(current_file)
    /\ Len(FormatDiagnostics) = 1
    /\ \E i \in DOMAIN Statements :
          /\ IsLiteralFormatCall(Statements[i])
          /\ FormatPosition(CallNodeOf(Statements[i]).children[1].text) > 0
          /\ CountsDiffer(Statements[i])
    /\ \E i \in DOMAIN Statements :
          IsLiteralFormatCall(Statements[i]) /\ ~CountsDiffer(Statements[i])

-----------------------------------------------------------------------------
(* Specification of the specifier count: one printf call per format string *)

MaxFormatLen == 4

\* "%", a conversion character and a character that is no conversion
FormatAlphabet == {"%", "d", "k"}

RECURSIVE Concat(_)
Concat(chars) == IF chars = << >> THEN "" ELSE Head(chars) \o Concat(Tail(chars))

FormatStrings == {Concat(chars) : chars \in SeqsUpTo(FormatAlphabet, MaxFormatLen)}

\* printf("<fmt>", x);
InitSpecifiers ==
    /\ current_file = RequestFile
    /\ buffer_tree \in {Module(<<CallOf("printf", 1, <<Literal(fmt, 1, "c"), Arg("x", 1)>>,
                                        "c")>>) : fmt \in FormatStrings}
    /\ buffer_refs = << >>
    /\ buffer_symbols = << >>
    /\ repo_symbols = << >>
    /\ diagnostics = << >>
    /\ phase = "input"
    /\ ServerUnused

SpecSpecifiers == InitSpecifiers /\ [][NextFormat]_vars

\* the format string of the buffer's one call
FormatOfBuffer ==
    LET literal == ArgumentsOf(Statements[1])[1].text
    IN  SubSeq(literal, 2, Len(literal) - 1)

\* C17: the specifier count recorded for a format string is the number of
\* its conversion specifiers, where a "%%" counts nothing, neither itself nor
\* through its second "%" and a conversion character after it.
C17_SpecifierCount ==
    phase = "done" =>
        \A r \in Range(buffer_refs) :
            r.kind = "format_call" =>
                r.format_specifiers = Some(ConversionCount(FormatOfBuffer, 1))

-----------------------------------------------------------------------------
(* Specification of the unsafe-function checker                            *)

FormatCall(name, line, arg_count, format_specifiers) ==
    [Reference(name, "format_call", line)
        EXCEPT !.arg_count = Some(arg_count),
               !.format_specifiers = Some(format_specifiers)]

SafetyRefUniverse(cur_file) ==
    IF IsPythonBuffer(cur_file)
    THEN {Call("gets", 1, 1), Call("strcpy", 2, 2)}
    ELSE {\* gets(buf);  strcpy(a, b);  sprintf(buf, "%d", n);  printf("hi");
          Call("gets", 1, 1), Call("strcpy", 2, 2), Call("sprintf", 3, 3),
          FormatCall("sprintf", 3, 1, 1), Call("printf", 4, 1),
          \* gets[0]
          ArrayAccess("gets", 5, Some(0))}

InitSafety ==
    /\ current_file \in UnusedFiles
    /\ buffer_refs \in SeqsUpTo(SafetyRefUniverse(current_file), MaxRefs)
    /\ buffer_symbols = << >>
    /\ repo_symbols = << >>
    /\ diagnostics = << >>
    /\ phase = "input"
    /\ buffer_tree = << >>
    /\ ServerUnused

RunSafety ==
    /\ phase = "input"
    /\ diagnostics' = check_unsafe_functions(buffer_refs, buffer_symbols, repo_symbols,
                                             current_file)
    /\ phase' = "done"
    /\ UNCHANGED <<current_file, buffer_refs, buffer_symbols, repo_symbols, buffer_tree>>
    /\ UNCHANGED serverVars

NextSafety == RunSafety

SpecSafety == InitSafety /\ [][NextSafety]_vars

\* the table entry the claim gives the call: removed, discouraged or none
SafetyEntry(r) ==
    IF ~IsCBuffer(current_file) \/ r.kind # "call" THEN None
    ELSE IF r.name \in DOMAIN REMOVED_FUNCTIONS
         THEN Some([severity |-> "ERROR", entry |-> REMOVED_FUNCTIONS[r.name]])
    ELSE IF r.name \in DOMAIN UNSAFE_FUNCTIONS
         THEN Some([severity |-> "WARNING", entry |-> UNSAFE_FUNCTIONS[r.name]])
    ELSE None

UnsafeDiagnostics == SelectSeq(diagnostics, LAMBDA d : d.code = "SNIPE_UNSAFE_FUNCTION")

\* the diagnostics on the line of r that name r
UnsafeDiagnosticsOf(r) ==
    SelectSeq(UnsafeDiagnostics,
              LAMBDA d : d.line = r.line /\ StartsWith(d.message, "'" \o r.name \o "()'"))

\* C18: in a C buffer a call of a removed name gets exactly one ERROR and a
\* call of a discouraged name exactly one WARNING, with the message built
\* from the table entry; no call gets both, and other calls, references that
\* are no calls, and buffers that are not C get none.
C18_UnsafeFunctions ==
    phase = "done" =>
        /\ Len(UnsafeDiagnostics)
              = Cardinality({i \in DOMAIN buffer_refs : ~IsNone(SafetyEntry(buffer_refs[i]))})
        /\ Len(diagnostics) = Len(UnsafeDiagnostics)
        /\ \A i \in DOMAIN buffer_refs :
              LET r == buffer_refs[i]
                  e == SafetyEntry(r)
                  calls == {k \in DOMAIN buffer_refs :
                                /\ buffer_refs[k].kind = "call"
                                /\ buffer_refs[k].name = r.name
                                /\ buffer_refs[k].line = r.line}
                  found == UnsafeDiagnosticsOf(r)
              IN  IF r.kind = "call" /\ ~IsNone(e)
                  THEN /\ Len(found) = Cardinality(calls)
                       /\ \A d \in Range(found) :
                             /\ d.severity = Val(e).severity
                             /\ d.file = current_file
                             /\ d.message
                                   = "'" \o r.name \o "()' -- " \o Val(e).entry.category
                                     \o ". " \o Val(e).entry.reason \o ". "
                                     \o Val(e).entry.suggestion \o "."
                  ELSE r.kind = "call" => Len(found) = 0

\* a C buffer that calls a removed function and a discouraged one: one ERROR
\* and one WARNING
C18_Witness ==
    /\ phase = "done"
    /\ IsCBuffer(current_file)
    /\ \E d \in Range(diagnostics) : d.severity = "ERROR"
    /\ \E d \in Range(diagnostics) : d.severity = "WARNING"
    /\ Len(diagnostics) = 2

-----------------------------------------------------------------------------
(* Specification of the direction of cross-file type mismatches            *)

DirectionFiles == {"/ws/main.c", "/ws/lib.h"}

DirectionRefUniverse ==
    {\* arr[0]          arr[0] = 1;
     ArrayAccess("arr", 5, Some(0)),
     ArrayWrite("arr", 7, Some(0), Some("int"), None)}

DirectionBufferUniverse(cur_file) ==
    {\* extern char arr[10];
     ArraySymbol("arr", Some("char"), cur_file, 1, Some(10), TRUE),
     \* int arr[10];
     ArraySymbol("arr", Some("int"), cur_file, 2, Some(10), FALSE)}

DirectionRepoUniverse ==
    {\* int arr[10];  in lib.c       char arr[10];  in other.c
     ArraySymbol("arr", Some("int"), "lib.c", 3, Some(10), FALSE),
     ArraySymbol("arr", Some("char"), "other.c", 4, Some(10), FALSE),
     \* extern char arr[10];  in lib.h
     ArraySymbol("arr", Some("char"), "lib.h", 1, Some(10), TRUE),
     \* arr = "abc"  in util.py
     Symbol("arr", "variable", Some("str"), "util.py", 1)}

InitDirection ==
    /\ current_file \in DirectionFiles
    /\ buffer_refs \in SeqsUpTo(DirectionRefUniverse, MaxRefs)
    /\ buffer_symbols \in SeqsUpTo(DirectionBufferUniverse(current_file), MaxBufSyms)
    /\ repo_symbols \in SeqsUpTo(DirectionRepoUniverse, MaxRepoSyms)
    /\ diagnostics = << >>
    /\ phase = "input"
    /\ buffer_tree = << >>
    /\ ServerUnused

RunDirection ==
    /\ phase = "input"
    /\ diagnostics' = check_type_mismatch(buffer_refs, buffer_symbols, repo_symbols,
                                          current_file)
    /\ phase' = "done"
    /\ UNCHANGED <<current_file, buffer_refs, buffer_symbols, repo_symbols, buffer_tree>>
    /\ UNCHANGED serverVars

NextDirection == RunDirection

SpecDirection == InitDirection /\ [][NextDirection]_vars

\* the declarations of name in other files of the buffer's language, in the
\* order of the index
OtherDeclarations(name) ==
    SelectSeq(repo_symbols,
              LAMBDA s : /\ s.name = name
                         /\ ~_is_same_file(current_file, s.file_path)
                         /\ IsCBuffer(s.file_path) = IsCBuffer(current_file))

OtherDefinitions(name) == SelectSeq(OtherDeclarations(name), LAMBDA s : ~s.is_extern)

\* type mismatch diagnostics of a name that cite its declaration in another
\* file: at a declaration ("declared as ... here") or at a use ("used as")
CrossFileMismatches(name) ==
    SelectSeq(diagnostics,
              LAMBDA d : /\ d.code = "SNIPE_TYPE_MISMATCH"
                         /\ d.file = current_file
                         /\ StartsWith(d.message, "'" \o name \o "' is declared as "))

HasSubstring(s, p) == \E i \in 1..(Len(s) - Len(p) + 1) : SubSeq(s, i, i + Len(p) - 1) = p

DeclarationLevel(d) ==
    EndsWith(d.message, " here.") /\ HasSubstring(d.message, " but declared as ")

\* C19: a buffer extern whose canonical definition in another file of the
\* same language has a different type gets exactly one declaration-level
\* SNIPE_TYPE_MISMATCH at its line; a buffer definition that only meets an
\* extern of a different type in another file gets no cross-file
\* SNIPE_TYPE_MISMATCH for its name.
C19_ExternDirection ==
    phase = "done" =>
        \A i \in DOMAIN buffer_symbols :
            LET b == buffer_symbols[i]
                defs == OtherDefinitions(b.name)
                decls == OtherDeclarations(b.name)
                here == SelectSeq(CrossFileMismatches(b.name),
                                  LAMBDA d : DeclarationLevel(d) /\ d.line = b.line)
                copies == {k \in DOMAIN buffer_symbols : buffer_symbols[k] = b}
            IN  /\ (b.is_extern /\ defs # << >> /\ Head(defs).type # b.type)
                      => Len(here) = Cardinality(copies)
                /\ (/\ \A k \in DOMAIN buffer_symbols :
                          buffer_symbols[k].name = b.name => ~buffer_symbols[k].is_extern
                    /\ defs = << >>
                    /\ \E k \in DOMAIN decls : decls[k].type # b.type)
                      => CrossFileMismatches(b.name) = << >>

\* the extern side: extern char arr[10] in the buffer against int arr[10] in
\* lib.c, reported once at the extern's line
C19_Witness ==
    /\ phase = "done"
    /\ \E i \in DOMAIN buffer_symbols :
          /\ buffer_symbols[i].is_extern
          /\ OtherDefinitions(buffer_symbols[i].name) # << >>
          /\ Head(OtherDefinitions(buffer_symbols[i].name)).type # buffer_symbols[i].type
    /\ Len(SelectSeq(diagnostics, LAMBDA d : d.code = "SNIPE_TYPE_MISMATCH")) = 1

\* C20: when the buffer's definition of a name and the canonical definition
\* of that name in another file of the same language have different types,
\* the buffer gets a SNIPE_TYPE_MISMATCH for the name.
C20_BothDefinitions ==
    phase = "done" =>
        \A i \in DOMAIN buffer_symbols :
            LET b == buffer_symbols[i]
                defs == OtherDefinitions(b.name)
            IN  (~b.is_extern /\ defs # << >> /\ Head(defs).type # b.type)
                    => CrossFileMismatches(b.name) # << >>

-----------------------------------------------------------------------------
(* Specification of the size check of extern array declarations            *)

OverclaimBufferUniverse(cur_file) ==
    {\* extern int arr[100];       extern int arr[10];
     ArraySymbol("arr", Some("int"), cur_file, 1, Some(100), TRUE),
     ArraySymbol("arr", Some("int"), cur_file, 2, Some(10), TRUE),
     \* extern int arr[];          int arr[100];
     ArraySymbol("arr", Some("int"), cur_file, 3, None, TRUE),
     ArraySymbol("arr", Some("int"), cur_file, 4, Some(100), FALSE)}

OverclaimRepoUniverse ==
    {\* int arr[10];  in lib.c     int arr[] = {...};  in other.c, size not recorded
     ArraySymbol("arr", Some("int"), "lib.c", 3, Some(10), FALSE),
     ArraySymbol("arr", Some("int"), "other.c", 4, None, FALSE),
     \* extern int arr[50];  in lib.h
     ArraySymbol("arr", Some("int"), "lib.h", 1, Some(50), TRUE),
     \* arr = [1, 2, 3]  in util.py
     [Symbol("arr", "variable", Some("list"), "util.py", 1) EXCEPT !.array_size = Some(3)]}

InitOverclaim ==
    /\ current_file \in DirectionFiles
    /\ buffer_refs \in {<< >>, <<ArrayAccess("arr", 5, Some(0))>>}
    /\ buffer_symbols \in SeqsUpTo(OverclaimBufferUniverse(current_file), MaxBufSyms)
    /\ repo_symbols \in SeqsUpTo(OverclaimRepoUniverse, MaxRepoSyms)
    /\ diagnostics = << >>
    /\ phase = "input"
    /\ buffer_tree = << >>
    /\ ServerUnused

RunOverclaim ==
    /\ phase = "input"
    /\ diagnostics' = check_type_mismatch(buffer_refs, buffer_symbols, repo_symbols,
                                          current_file)
    /\ phase' = "done"
    /\ UNCHANGED <<current_file, buffer_refs, buffer_symbols, repo_symbols, buffer_tree>>
    /\ UNCHANGED serverVars

NextOverclaim == RunOverclaim

SpecOverclaim == InitOverclaim /\ [][NextOverclaim]_vars

\* the canonical declaration of a name: the first definition in another file
\* of the buffer's language, else the first extern declaration there
\* (<< >> when the name is declared in no such file)
Canonical(name) ==
    IF OtherDefinitions(name) # << >> THEN <<Head(OtherDefinitions(name))>>
    ELSE IF OtherDeclarations(name) # << >> THEN <<Head(OtherDeclarations(name))>>
    ELSE << >>

Overclaims(b) ==
    /\ b.is_extern
    /\ ~IsNone(b.array_size)
    /\ Canonical(b.name) # << >>
    /\ ~IsNone(Canonical(b.name)[1].array_size)
    /\ Val(b.array_size) > Val(Canonical(b.name)[1].array_size)

SizeDiagnosticsAt(line) ==
    SelectSeq(diagnostics,
              LAMBDA d : /\ d.code = "SNIPE_ARRAY_BOUNDS"
                         /\ d.file = current_file
                         /\ d.line = line)

\* C21: a buffer extern array declaration whose size is greater than the
\* canonical size of its name gets exactly one SNIPE_ARRAY_BOUNDS ERROR at
\* its line; a size less than or equal to the canonical one, or a missing
\* size on either side, gets none.
C21_ExternOverclaim ==
    phase = "done" =>
        \A i \in DOMAIN buffer_symbols :
            LET b == buffer_symbols[i]
                here == SizeDiagnosticsAt(b.line)
                copies == {k \in DOMAIN buffer_symbols : buffer_symbols[k] = b}
            IN  b.is_extern =>
                    /\ Overclaims(b) =>
                          /\ Len(here) = Cardinality(copies)
                          /\ \A k \in DOMAIN here : here[k].severity = "ERROR"
                    /\ ~Overclaims(b) => here = << >>

\* extern int arr[100] in the buffer against int arr[10] of lib.c, which an
\* extern int arr[50] of lib.h precedes in the index
C21_Witness ==
    /\ phase = "done"
    /\ \E i \in DOMAIN buffer_symbols :
          /\ Overclaims(buffer_symbols[i])
          /\ Len(SizeDiagnosticsAt(buffer_symbols[i].line)) = 1
    /\ Len(repo_symbols) = 2
    /\ repo_symbols[1].is_extern
    /\ ~repo_symbols[2].is_extern
    /\ ~IsNone(repo_symbols[2].array_size)

\* C22: for every order of the index, the repo symbol check_type_mismatch
\* keeps for a name is a definition (not extern) of another file of the
\* buffer's language whenever the index holds one, and an extern only when it
\* holds none; the size diagnostic of an overclaiming extern cites that symbol.
C22_Canonicalization ==
    phase = "done" =>
        LET repo_by_name == RepoByName(repo_symbols, current_file)
        IN  /\ \A k \in DOMAIN repo_symbols :
                  LET name == repo_symbols[k].name
                  IN  /\ OtherDefinitions(name) # << >> =>
                            /\ name \in DOMAIN repo_by_name
                            /\ ~repo_by_name[name].is_extern
                            /\ repo_by_name[name] \in Range(OtherDefinitions(name))
                      /\ (name \in DOMAIN repo_by_name /\ repo_by_name[name].is_extern) =>
                            /\ OtherDefinitions(name) = << >>
                            /\ repo_by_name[name] \in Range(OtherDeclarations(name))
            /\ \A i \in DOMAIN buffer_symbols :
                  LET b == buffer_symbols[i]
                      defs == OtherDefinitions(b.name)
                  IN  (b.is_extern /\ defs # << >>) =>
                          \A d \in Range(SizeDiagnosticsAt(b.line)) :
                              \E s \in Range(defs) :
                                  /\ ~IsNone(s.array_size)
                                  /\ d.message = DeclSizeMessage(b.name, Val(b.array_size),
                                        Val(s.array_size), s.file_path, s.line)

\* the index lists extern int arr[50] of lib.h before int arr[10] of lib.c,
\* and the size diagnostic of the buffer's extern int arr[100] cites lib.c
C22_Witness ==
    /\ phase = "done"
    /\ current_file = "/ws/main.c"
    /\ Len(repo_symbols) = 2
    /\ repo_symbols[1].is_extern
    /\ ~repo_symbols[2].is_extern
    /\ \E d \in Range(diagnostics) :
          /\ d.code = "SNIPE_ARRAY_BOUNDS"
          /\ d.message = DeclSizeMessage("arr", 100, 10, "lib.c", 3)

-----------------------------------------------------------------------------
(* Specification of analyze on files of no supported language              *)

\* request.file_path values whose extension is none of .py, .c, .h
UnsupportedFiles == {"/ws/notes.txt", "/ws/main.cpp"}

\* the references and symbols are what parse_unsaved_buffer returns for such
\* a file: nothing without request.language, the extraction of the content
\* under the given language with it
InitUnsupported ==
    /\ current_file \in UnsupportedFiles
    /\ buffer_refs \in SeqsUpTo(PipelineRefUniverse(current_file), MaxRefs)
    /\ buffer_symbols \in SeqsUpTo(PipelineBufferUniverse(current_file), MaxBufSyms)
    /\ repo_symbols \in SeqsUpTo(PipelineRepoUniverse, MaxRepoSyms)
    /\ diagnostics = << >>
    /\ phase = "input"
    /\ buffer_tree = << >>
    /\ ServerUnused

SpecUnsupported == InitUnsupported /\ [][NextPipeline]_vars

\* C23: for a current file whose extension is none of .py, .c, .h every
\* checker returns an empty list whatever references, buffer symbols and repo
\* symbols it is given, so analyze returns no diagnostics for such a file.
C23_UnsupportedSilent ==
    (phase = "done" /\ IsNone(_get_language_from_path(current_file)))
        => diagnostics = << >>

-----------------------------------------------------------------------------
(* Specification SpecStruct: check_struct_access on bounded inputs         *)

\* struct S { ... };  as the extractor records it (kind and type "struct")
StructDefinition(name, file_path, line, member_names) ==
    [StructSymbol(name, file_path, line,
                  [i \in DOMAIN member_names |-> [name |-> member_names[i], type |-> "int"]])
        EXCEPT !.type = Some("struct")]

StructRefUniverse ==
    {\* p.z            p.x            r.x
     MemberAccess("p", 4, "z"), MemberAccess("p", 5, "x"),
     MemberAccess("r", 6, "x")}

StructBufferUniverse(cur_file) ==
    {\* struct Point p;        int p;
     Symbol("p", "variable", Some("struct Point"), cur_file, 2),
     Symbol("p", "variable", Some("int"), cur_file, 3),
     \* struct Point { int x; int z; };
     StructDefinition("Point", cur_file, 1, <<"x", "z">>)}

StructRepoUniverse ==
    {\* struct Point { int x; int y; };  in types.h
     StructDefinition("Point", "types.h", 20, <<"x", "y">>),
     \* struct Point p;  in lib.c        struct Opaque r;  in lib.c
     Symbol("p", "variable", Some("struct Point"), "lib.c", 9),
     Symbol("r", "variable", Some("struct Opaque"), "lib.c", 10)}

InitStruct ==
    /\ current_file \in BufferFiles
    /\ buffer_refs \in SeqsUpTo(StructRefUniverse, MaxRefs)
    /\ buffer_symbols \in SeqsUpTo(StructBufferUniverse(current_file), MaxBufSyms)
    /\ repo_symbols \in SeqsUpTo(StructRepoUniverse, MaxRepoSyms)
    /\ diagnostics = << >>
    /\ phase = "input"
    /\ buffer_tree = << >>
    /\ ServerUnused

RunStruct ==
    /\ phase = "input"
    /\ diagnostics' = check_struct_access(buffer_refs, buffer_symbols, repo_symbols,
                                          current_file)
    /\ phase' = "done"
    /\ UNCHANGED <<current_file, buffer_refs, buffer_symbols, repo_symbols, buffer_tree>>
    /\ UNCHANGED serverVars

NextStruct == RunStruct

SpecStruct == InitStruct /\ [][NextStruct]_vars

\* the type a variable resolves to: its typed declaration in the buffer (the
\* last one), else the first typed symbol of that name in the index
ResolvedVarType(v) ==
    LET bs == SelectSeq(buffer_symbols, LAMBDA s : s.name = v /\ Truthy(s.type))
        rs == SelectSeq(repo_symbols, LAMBDA s : s.name = v /\ Truthy(s.type))
    IN  IF bs # << >> THEN <<Val(bs[Len(bs)].type)>>
        ELSE IF rs # << >> THEN <<Val(rs[1].type)>>
        ELSE << >>

\* the members of the known definition of struct S, in the same order of
\* preference (<< >> when no definition with members is known)
KnownMembers(S) ==
    LET IsDef(s) == s.kind = "struct" /\ s.name = S /\ s.members # << >>
        bs == SelectSeq(buffer_symbols, IsDef)
        rs == SelectSeq(repo_symbols, IsDef)
    IN  IF bs # << >> THEN {m.name : m \in Range(bs[Len(bs)].members)}
        ELSE IF rs # << >> THEN {m.name : m \in Range(rs[1].members)}
        ELSE {}

\* `struct S` -> S
StructNameOf(type) == SubSeq(type, Len("struct ") + 1, Len(type))

IsMissingMember(r) ==
    /\ r.kind = "member_access"
    /\ Truthy(r.member_name)
    /\ ResolvedVarType(r.name) # << >>
    /\ StartsWith(ResolvedVarType(r.name)[1], "struct ")
    /\ KnownMembers(StructNameOf(ResolvedVarType(r.name)[1])) # {}
    /\ Val(r.member_name) \notin KnownMembers(StructNameOf(ResolvedVarType(r.name)[1]))

StructDiagnosticsAt(line) ==
    SelectSeq(diagnostics,
              LAMBDA d : /\ d.code = "SNIPE_STRUCT_ACCESS"
                         /\ d.file = current_file
                         /\ d.line = line)

\* C24: for a C buffer a member_access on variable v gets exactly one
\* SNIPE_STRUCT_ACCESS ERROR iff v's type resolves (buffer symbols first, then
\* the index) to `struct S`, a definition of S with members is known and the
\* member is not among them; the message lists the available members. An
\* unknown variable, a non-struct type, an unknown struct or an existing
\* member gets none.
C24_StructAccess ==
    (phase = "done" /\ IsCBuffer(current_file)) =>
        \A i \in DOMAIN buffer_refs :
            LET r == buffer_refs[i]
                here == StructDiagnosticsAt(r.line)
                copies == {k \in DOMAIN buffer_refs : buffer_refs[k] = r}
            IN  r.kind = "member_access" =>
                    /\ IsMissingMember(r) =>
                          /\ Len(here) = Cardinality(copies)
                          /\ \A k \in DOMAIN here :
                                /\ here[k].severity = "ERROR"
                                /\ \A m \in KnownMembers(
                                              StructNameOf(ResolvedVarType(r.name)[1])) :
                                      HasSubstring(here[k].message, m)
                    /\ ~IsMissingMember(r) => here = << >>

\* p.z where p is only declared in lib.c as struct Point and types.h defines
\* Point with x and y, beside p.x, which exists
C24_Witness ==
    /\ phase = "done"
    /\ current_file = "/ws/main.c"
    /\ buffer_symbols = << >>
    /\ Len(buffer_refs) = 2
    /\ IsMissingMember(buffer_refs[1])
    /\ ~IsMissingMember(buffer_refs[2])
    /\ Len(diagnostics) = 1
    /\ diagnostics[1].message = "Struct 'Point' has no member 'z'. Available members: x, y."

-----------------------------------------------------------------------------
(* Specification SpecArgTypes: check_arg_types on bounded inputs           *)

\* a call whose arguments have the inferred types arg_types (None: not a literal)
TypedCall(name, line, arg_types) ==
    [Call(name, line, Len(arg_types)) EXCEPT !.arg_types = Some(arg_types)]

ArgTypesRefUniverse ==
    {\* greet("a", 5)                greet(5, who)
     TypedCall("greet", 3, <<Some("str"), Some("int")>>),
     TypedCall("greet", 4, <<Some("int"), None>>),
     \* obj.greet(5)                 greet(1.5, "b", 3)
     TypedCall("obj.greet", 5, <<Some("int")>>),
     TypedCall("greet", 6, <<Some("float"), Some("str"), Some("int")>>),
     \* pack(5)                      greet(who)
     TypedCall("pack", 7, <<Some("int")>>),
     Call("greet", 8, 1)}

ArgTypesBufferUniverse(cur_file) ==
    {\* def greet(name: int, count):
     FunctionSymbol("greet", cur_file, 1,
        <<Param("name", Some("int"), FALSE), Param("count", None, FALSE)>>, FALSE),
     \* greet = None
     Symbol("greet", "variable", None, cur_file, 2)}

ArgTypesRepoUniverse ==
    {\* def greet(name: str, greeting: str = "Hello")  in util.py
     FunctionSymbol("greet", "util.py", 1,
        <<Param("name", Some("str"), FALSE), Param("greeting", Some("str"), TRUE)>>, FALSE),
     \* def pack(*args, x: str)  in util.py
     FunctionSymbol("pack", "util.py", 5,
        <<Param("*args", None, FALSE), Param("x", Some("str"), FALSE)>>, TRUE),
     \* def greet()  in other.py
     FunctionSymbol("greet", "other.py", 1, << >>, FALSE)}

InitArgTypes ==
    /\ current_file \in BufferFiles
    /\ buffer_refs \in SeqsUpTo(ArgTypesRefUniverse, MaxRefs)
    /\ buffer_symbols \in SeqsUpTo(ArgTypesBufferUniverse(current_file), MaxBufSyms)
    /\ repo_symbols \in SeqsUpTo(ArgTypesRepoUniverse, MaxRepoSyms)
    /\ diagnostics = << >>
    /\ phase = "input"
    /\ buffer_tree = << >>
    /\ ServerUnused

RunArgTypes ==
    /\ phase = "input"
    /\ diagnostics' = check_arg_types(buffer_refs, buffer_symbols, repo_symbols,
                                      current_file)
    /\ phase' = "done"
    /\ UNCHANGED <<current_file, buffer_refs, buffer_symbols, repo_symbols, buffer_tree>>
    /\ UNCHANGED serverVars

NextArgTypes == RunArgTypes

SpecArgTypes == InitArgTypes /\ [][NextArgTypes]_vars

\* the known parameters of a function name: its definition with parameters in
\* the buffer (the last one), else the first one of the index
KnownParams(name) ==
    LET IsDef(s) == s.kind = "function" /\ s.name = name /\ s.params # << >>
        bs == SelectSeq(buffer_symbols, IsDef)
        rs == SelectSeq(repo_symbols, IsDef)
    IN  IF bs # << >> THEN bs[Len(bs)].params
        ELSE IF rs # << >> THEN rs[1].params
        ELSE << >>

NonPack(params) == SelectSeq(params, LAMBDA p : ~StartsWith(p.name, "*"))

\* the argument positions of a call that the claim says are reported
MismatchedPositions(r) ==
    IF r.kind # "call" \/ IsNone(r.arg_types) \/ Contains(r.name, ".") THEN {}
    ELSE LET params == NonPack(KnownParams(r.name))
             args == Val(r.arg_types)
         IN  {i \in DOMAIN args :
                 /\ i <= Len(params)
                 /\ ~IsNone(args[i])
                 /\ ~IsNone(params[i].type)
                 /\ Val(args[i]) # Val(params[i].type)}

ArgTypeDiagnosticsAt(line) ==
    SelectSeq(diagnostics,
              LAMBDA d : /\ d.code = "SNIPE_ARG_TYPE_MISMATCH"
                         /\ d.file = current_file
                         /\ d.line = line)

\* C25: for a Python buffer and a non-method call to a function with known
\* parameters, one SNIPE_ARG_TYPE_MISMATCH ERROR is emitted for each positional
\* argument that has an inferred literal type and whose non-pack parameter at
\* the same position has a different annotated type; arguments without
\* inferred type, parameters without annotation, positions beyond the
\* parameter list and method calls get none.
C25_ArgTypes ==
    (phase = "done" /\ IsPythonBuffer(current_file)) =>
        \A k \in DOMAIN buffer_refs :
            LET r == buffer_refs[k]
                here == ArgTypeDiagnosticsAt(r.line)
                copies == {j \in DOMAIN buffer_refs : buffer_refs[j] = r}
                params == NonPack(KnownParams(r.name))
            IN  r.kind = "call" =>
                    /\ Len(here) = Cardinality(copies) * Cardinality(MismatchedPositions(r))
                    /\ \A j \in DOMAIN here : here[j].severity = "ERROR"
                    /\ \A i \in MismatchedPositions(r) :
                          Len(SelectSeq(here, LAMBDA d :
                                  HasSubstring(d.message,
                                      "Argument '" \o params[i].name \o "' of")))
                              = Cardinality(copies)

\* greet(1.5, "b", 3) against def greet(name: str, greeting: str = "Hello"):
\* the first argument is reported, the second agrees, the third is beyond
\* the parameter list; beside a method call obj.greet(5), which is skipped
C25_Witness ==
    /\ phase = "done"
    /\ IsPythonBuffer(current_file)
    /\ \E k \in DOMAIN buffer_refs :
          /\ ~IsNone(buffer_refs[k].arg_types)
          /\ Len(Val(buffer_refs[k].arg_types)) = 3
          /\ MismatchedPositions(buffer_refs[k]) = {1}
    /\ \E k \in DOMAIN buffer_refs : Contains(buffer_refs[k].name, ".")
    /\ Len(diagnostics) = 1

-----------------------------------------------------------------------------
(* Specification SpecShadow: check_variable_shadowing on bounded inputs    *)

\* most symbols of a buffer: a module-level variable beside a local one
MaxScoped == 2

\* a variable assigned inside a function or class body
ScopedVariable(name, type, file_path, line, scope) ==
    [Symbol(name, "variable", type, file_path, line) EXCEPT !.scope = scope]

ShadowBufferUniverse(cur_file) ==
    {\* x = 1                       def foo(): x = "a"
     Symbol("x", "variable", Some("int"), cur_file, 1),
     ScopedVariable("x", Some("str"), cur_file, 5, "foo"),
     \* def foo(): y = 2            def bar(): cfg = {}
     ScopedVariable("y", Some("int"), cur_file, 6, "foo"),
     ScopedVariable("cfg", Some("dict"), cur_file, 9, "bar")}

ShadowRepoUniverse ==
    {\* cfg = {}  in util.py        def helper(): y = 0  in util.py
     Symbol("cfg", "variable", Some("dict"), "util.py", 2),
     ScopedVariable("y", Some("int"), "util.py", 8, "helper"),
     \* int y;  in lib.c            def cfg():  in other.py
     Symbol("y", "variable", Some("int"), "lib.c", 4),
     FunctionSymbol("cfg", "other.py", 1, << >>, FALSE)}

InitShadow ==
    /\ current_file \in BufferFiles
    /\ buffer_refs = << >>
    /\ buffer_symbols \in SeqsUpTo(ShadowBufferUniverse(current_file), MaxScoped)
    /\ repo_symbols \in SeqsUpTo(ShadowRepoUniverse, MaxRepoSyms)
    /\ diagnostics = << >>
    /\ phase = "input"
    /\ buffer_tree = << >>
    /\ ServerUnused

RunShadow ==
    /\ phase = "input"
    /\ diagnostics' = check_variable_shadowing(buffer_refs, buffer_symbols,
                                               repo_symbols, current_file)
    /\ phase' = "done"
    /\ UNCHANGED <<current_file, buffer_refs, buffer_symbols, repo_symbols, buffer_tree>>
    /\ UNCHANGED serverVars

NextShadow == RunShadow

SpecShadow == InitShadow /\ [][NextShadow]_vars

IsFileLevelVariable(s) == s.kind = "variable" /\ s.scope = ""

\* names of the file-level variables of the buffer and of the Python files
\* of the index
FileLevelNames ==
    {s.name : s \in {b \in Range(buffer_symbols) : IsFileLevelVariable(b)}}
    \cup {s.name : s \in {p \in Range(repo_symbols) :
                            /\ IsFileLevelVariable(p)
                            /\ _get_language_from_path(p.file_path) = Some("python")}}

Shadows(b) == b.kind = "variable" /\ b.scope # "" /\ b.name \in FileLevelNames

ShadowDiagnosticsAt(line) ==
    SelectSeq(diagnostics,
              LAMBDA d : /\ d.code = "SNIPE_SHADOWED_SYMBOL"
                         /\ d.file = current_file
                         /\ d.line = line)

\* C26: for a Python buffer exactly one SNIPE_SHADOWED_SYMBOL WARNING is
\* emitted for each buffer variable symbol with a non-empty scope whose name
\* is the name of a file-level variable of the buffer or of a Python file of
\* the index; symbols with no such match, and non-Python buffers, get none.
C26_Shadowing ==
    phase = "done" =>
        /\ ~IsPythonBuffer(current_file) => diagnostics = << >>
        /\ IsPythonBuffer(current_file) =>
              \A i \in DOMAIN buffer_symbols :
                  LET b == buffer_symbols[i]
                      here == ShadowDiagnosticsAt(b.line)
                      copies == {k \in DOMAIN buffer_symbols : buffer_symbols[k] = b}
                  IN  /\ Shadows(b) =>
                            /\ Len(here) = Cardinality(copies)
                            /\ \A k \in DOMAIN here : here[k].severity = "WARNING"
                      /\ ~Shadows(b) => here = << >>

\* x of foo shadows the buffer's own x, declared before it
C26_Witness ==
    /\ phase = "done"
    /\ IsPythonBuffer(current_file)
    /\ Len(buffer_symbols) = 2
    /\ IsFileLevelVariable(buffer_symbols[1])
    /\ Shadows(buffer_symbols[2])
    /\ Len(diagnostics) = 1
    /\ diagnostics[1].line = buffer_symbols[2].line

-----------------------------------------------------------------------------
(* Specification SpecCatalog: analyze on buffers that draw diagnostics of  *)
(* every code                                                              *)

\* def name() -> declared:  return <literal of type actual>
ReturnValue(name, line, actual, declared) ==
    [Reference(name, "return_value", line)
        EXCEPT !.return_value_type = Some(actual), !.declared_return_type = Some(declared),
               !.scope = Some(name)]

\* name: annotation = <literal of type inferred>
Assignment(name, line, annotation, inferred) ==
    [Reference(name, "assignment", line)
        EXCEPT !.annotation_type = Some(annotation), !.inferred_type = Some(inferred)]

CatalogRefUniverse(cur_file) ==
    IF IsPythonBuffer(cur_file)
    THEN {\* greet(5)                  greet()
          TypedCall("greet", 3, <<Some("int")>>), Call("greet", 4, 0),
          \* def area() -> int: return "a"          n: int = "a"
          ReturnValue("area", 6, "str", "int"), Assignment("n", 7, "int", "str"),
          \* mystery()
          Call("mystery", 8, 0)}
    ELSE {\* printf("%d %s", 42);       arr[5]       mystery();
          FormatCall("printf", 3, 1, 2), ArrayAccess("arr", 4, Some(5)),
          Call("mystery", 8, 0)}

CatalogBufferUniverse(cur_file) ==
    IF IsPythonBuffer(cur_file) THEN {}
    ELSE {\* extern int arr[10];
          ArraySymbol("arr", Some("int"), cur_file, 1, Some(10), TRUE)}

CatalogRepoUniverse ==
    {\* def greet(name: str, greeting: str = "Hello")  in util.py
     FunctionSymbol("greet", "util.py", 1,
        <<Param("name", Some("str"), FALSE), Param("greeting", Some("str"), TRUE)>>, FALSE),
     \* char arr[5];  in lib.c
     ArraySymbol("arr", Some("char"), "lib.c", 3, Some(5), FALSE)}

InitCatalogOwn ==
    /\ current_file \in BufferFiles
    /\ buffer_refs \in SeqsUpTo(CatalogRefUniverse(current_file), MaxRefs)
    /\ buffer_symbols \in SeqsUpTo(CatalogBufferUniverse(current_file), MaxBufSyms)
    /\ repo_symbols \in SeqsUpTo(CatalogRepoUniverse, MaxRepoSyms)
    /\ diagnostics = << >>
    /\ phase = "input"
    /\ buffer_tree = << >>
    /\ ServerUnused

\* the buffers above together with those of the checkers' own specifications
InitCatalog ==
    \/ InitCatalogOwn
    \/ InitSafety
    \/ InitUnused
    \/ InitOverclaim
    \/ InitStruct
    \/ InitShadow

SpecCatalog == InitCatalog /\ [][NextPipeline]_vars

WarningCodes ==
    {"SNIPE_UNDEFINED_SYMBOL", "SNIPE_SHADOWED_SYMBOL", "SNIPE_UNUSED_EXTERN",
     "SNIPE_DEAD_IMPORT"}

ErrorCodes ==
    {"SNIPE_TYPE_MISMATCH", "SNIPE_ARRAY_BOUNDS", "SNIPE_SIGNATURE_DRIFT",
     "SNIPE_FORMAT_STRING", "SNIPE_ARG_TYPE_MISMATCH", "SNIPE_STRUCT_ACCESS"}

Catalog == WarningCodes \cup ErrorCodes \cup {"SNIPE_UNSAFE_FUNCTION"}

\* the calls a SNIPE_UNSAFE_FUNCTION diagnostic is about
UnsafeCallsOf(d) ==
    {r \in Range(buffer_refs) :
        /\ r.kind = "call"
        /\ r.line = d.line
        /\ StartsWith(d.message, "'" \o r.name \o "()'")}

\* C27: every diagnostic analyze returns has severity ERROR or WARNING and a
\* code of the catalog, and the code determines the severity: WARNING for
\* undefined symbol, shadowed symbol, unused extern and dead import; ERROR for
\* type mismatch, array bounds, signature drift, format string, argument type
\* mismatch and struct access; an unsafe function is ERROR exactly for the
\* names removed from the standard and WARNING otherwise.
C27_CatalogSeverity ==
    phase = "done" =>
        \A d \in Range(diagnostics) :
            /\ d.severity \in {"ERROR", "WARNING"}
            /\ d.code \in Catalog
            /\ d.code \in WarningCodes => d.severity = "WARNING"
            /\ d.code \in ErrorCodes => d.severity = "ERROR"
            /\ d.code = "SNIPE_UNSAFE_FUNCTION" =>
                  /\ UnsafeCallsOf(d) # {}
                  /\ \A r \in UnsafeCallsOf(d) :
                        d.severity = "ERROR" <=> r.name \in DOMAIN REMOVED_FUNCTIONS

\* gets(buf) and strcpy(a, b) in one C buffer: an ERROR and a WARNING of the
\* same code, beside the SNIPE_UNDEFINED_SYMBOL warnings of analyze
C27_Witness ==
    /\ phase = "done"
    /\ \E d1, d2 \in Range(diagnostics) :
          /\ d1.code = "SNIPE_UNSAFE_FUNCTION" /\ d1.severity = "ERROR"
          /\ d2.code = "SNIPE_UNSAFE_FUNCTION" /\ d2.severity = "WARNING"

-----------------------------------------------------------------------------
(* Specification SpecFirstContact: analyze and refresh requests, served    *)
(* one at a time, for a workspace with sources and an empty one            *)

FirstContactRoots == {"/wsA", "/wsE"}

NextFirstContact ==
    \/ \E raw \in FirstContactRoots : AnalyzeStart(1, raw)
    \/ \E raw \in FirstContactRoots : RefreshStart(1, raw)
    \/ EnsureCheck(1)
    \/ Scan(1)
    \/ WriteChunk(1)
    \/ WriteClose(1)
    \/ EnsureAssign(1)
    \/ EnsureReturn(1)
    \/ AnalyzeRun(1)
    \/ RefreshAssignSymbols(1)
    \/ RefreshAssignPath(1)
    \/ \E root \in EditedDirectories : EditRepo(root)

SpecFirstContact == InitServer /\ [][NextFirstContact]_vars

\* thread t is inside build_repo_symbol_table or about to store its result
Rebuilding(t) == threads[t].pc \in {"scan", "dump", "ensure_assign"}

\* C28: once an analyze for workspace root R has completed, a later analyze
\* for R with no request for another root and no refresh in between performs
\* no repository scan and no write of the persisted symbol table. Stated for
\* the analyze that directly follows a completed analyze of the same root.
C28_NoScanAfterFirstContact ==
    \A t \in Threads :
        (/\ last_op.op = "analyze"
         /\ last_op.status = 200
         /\ threads[t].op = "analyze"
         /\ threads[t].key = Resolve(last_op.raw))
            => ~Rebuilding(t)

-----------------------------------------------------------------------------
(* Specification SpecCanonicalSize: check_array_bounds against an index    *)
(* that holds a definition and an extern declaration of one array          *)

CanonicalSizeRefUniverse ==
    {\* arr[20]          arr[3]
     ArrayAccess("arr", 5, Some(20)), ArrayAccess("arr", 6, Some(3))}

InitCanonicalSize ==
    /\ current_file \in DirectionFiles
    /\ buffer_refs \in SeqsUpTo(CanonicalSizeRefUniverse, MaxRefs)
    /\ buffer_symbols \in SeqsUpTo(OverclaimBufferUniverse(current_file), MaxBufSyms)
    /\ repo_symbols \in SeqsUpTo(OverclaimRepoUniverse, MaxRepoSyms)
    /\ diagnostics = << >>
    /\ phase = "input"
    /\ buffer_tree = << >>
    /\ ServerUnused

SpecCanonicalSize == InitCanonicalSize /\ [][NextBounds]_vars

Sized(decls) == SelectSeq(decls, LAMBDA s : ~IsNone(s.array_size))

SizesOf(decls) == {Val(s.array_size) : s \in Range(Sized(decls))}

\* C29: when files other than the buffer hold both a definition and an extern
\* declaration of an array, with different sizes, check_array_bounds judges an
\* access by the definition's size, whatever the order of the two entries in
\* the index.
C29_DefinitionSizeUsed ==
    phase = "done" =>
        \A i \in DOMAIN buffer_refs :
            LET r == buffer_refs[i]
                defs == SizesOf(OtherDefinitions(r.name))
                externs == SizesOf(SelectSeq(OtherDeclarations(r.name),
                                             LAMBDA s : s.is_extern))
                here == SelectSeq(diagnostics,
                                  LAMBDA d : d.code = "SNIPE_ARRAY_BOUNDS" /\ d.line = r.line)
            IN  (/\ r.kind = "array_access"
                 /\ ~IsNone(r.index_value)
                 /\ Cardinality(defs) = 1
                 /\ externs # {}
                 /\ externs # defs)
                    => \A N \in defs :
                          (here # << >>) <=> IndexOutOfBounds(Val(r.index_value), N)

-----------------------------------------------------------------------------
(* parser/symbol_extractor.py: _extract_c_symbols, declarations            *)

RECURSIVE JoinSpace(_)
JoinSpace(parts) ==
    IF parts = << >> THEN ""
    ELSE IF Len(parts) = 1 THEN Head(parts)
    ELSE Head(parts) \o " " \o JoinSpace(Tail(parts))

\* get_type_str, lines 322-329: the texts of the type children, a "*" for a
\* pointer declarator, "int" when there is none
get_type_str(decl_node) ==
    LET parts == [k \in DOMAIN decl_node.children |->
                     LET c == decl_node.children[k]
                     IN  IF c.type \in {"primitive_type", "sized_type_specifier",
                                        "type_identifier", "struct_specifier"}
                         THEN c.text
                         ELSE IF c.type = "pointer_declarator" /\ c.children # << >>
                         THEN "*" ELSE ""]
        type_parts == SelectSeq(parts, LAMBDA t : t # "")
    IN  IF type_parts = << >> THEN "int" ELSE JoinSpace(type_parts)

\* get_array_size_from_declarator, lines 337-353
RECURSIVE get_array_size_from_declarator(_)
get_array_size_from_declarator(decl_node) ==
    LET size_node == child_by_field_name(decl_node, "size")
        literals == SelectSeq(decl_node.children, LAMBDA c : c.type = "number_literal")
        inner == SelectSeq(decl_node.children, LAMBDA c : c.type = "array_declarator")
    IN  IF /\ decl_node.type = "array_declarator"
           /\ ~IsNone(size_node)
           /\ ~IsNone(IndexValue(Val(size_node).text))
        THEN IndexValue(Val(size_node).text)
        ELSE IF decl_node.type = "array_declarator" /\ literals # << >>
        THEN IndexValue(Head(literals).text)
        ELSE IF inner # << >> THEN get_array_size_from_declarator(Head(inner))
        ELSE None

\* _identifier_from_declarator, lines 355-364: the first identifier in
\* document order
RECURSIVE _identifier_from_declarator(_)
RECURSIVE IdentifierFromChildren(_)
_identifier_from_declarator(decl_node) ==
    IF decl_node.type = "identifier" THEN Some(decl_node.text)
    ELSE IdentifierFromChildren(decl_node.children)

IdentifierFromChildren(children) ==
    IF children = << >> THEN None
    ELSE IF Head(children).type = "identifier" THEN Some(Head(children).text)
    ELSE IF ~IsNone(_identifier_from_declarator(Head(children)))
         THEN _identifier_from_declarator(Head(children))
    ELSE IdentifierFromChildren(Tail(children))

\* lines 405-423: the children of the declarator of a declaration; an
\* init_declarator child and an identifier child give a symbol each
RECURSIVE DeclaratorLoop(_, _, _, _, _)
DeclaratorLoop(children, type_str, is_extern, file_path, line) ==
    IF children = << >> THEN << >>
    ELSE LET c == Head(children)
             d == IF IsNone(child_by_field_name(c, "declarator")) THEN c
                  ELSE Val(child_by_field_name(c, "declarator"))
             size == get_array_size_from_declarator(d)
             name == _identifier_from_declarator(d)
         IN  (IF c.type = "init_declarator" /\ ~IsNone(name) /\ Val(name) # ""
              THEN <<ArraySymbol(Val(name), Some(type_str), file_path, line, size,
                                 is_extern)>>
              ELSE IF c.type = "identifier"
              THEN <<ArraySymbol(c.text, Some(type_str), file_path, line, None,
                                 is_extern)>>
              ELSE << >>)
             \o DeclaratorLoop(Tail(children), type_str, is_extern, file_path, line)

\* lines 388-423: the symbols of a declaration node
DeclarationSymbols(node, file_path) ==
    LET type_str == get_type_str(node)
        is_extern == \E c \in Range(node.children) :
                        c.type = "storage_class_specifier" /\ c.text = "extern"
        decl_list == IF IsNone(child_by_field_name(node, "declarator"))
                     THEN child_by_field_name(node, "init_declarator_list")
                     ELSE child_by_field_name(node, "declarator")
    IN  IF node.type # "declaration" \/ IsNone(decl_list) THEN << >>
        ELSE IF Val(decl_list).type = "identifier"
        THEN <<ArraySymbol(Val(decl_list).text, Some(type_str), file_path, node.line,
                           None, is_extern)>>
        ELSE DeclaratorLoop(Val(decl_list).children, type_str, is_extern, file_path,
                            node.line)

\* walk(node) of lines 366-449.  Function definitions and struct specifiers
\* do not occur in the buffers below.
RECURSIVE WalkCSymbols(_, _)
RECURSIVE WalkCSymbolsChildren(_, _)
WalkCSymbols(node, file_path) ==
    DeclarationSymbols(node, file_path) \o WalkCSymbolsChildren(node.children, file_path)

WalkCSymbolsChildren(children, file_path) ==
    IF children = << >> THEN << >>
    ELSE WalkCSymbols(Head(children), file_path)
         \o WalkCSymbolsChildren(Tail(children), file_path)

\* source.splitlines()[line - 1], "" when there is no such line
RECURSIVE LineText(_, _)
LineText(source, line) ==
    LET stop == SkipWhile(source, 0, IdentStart \cup DecimalDigits
                                     \cup {" ", "\t", "[", "]", "(", ")", "{", "}", ";",
                                           ",", "=", "/", "*", "\"", "'", "%", "\\"})
    IN  IF line = 1 THEN Slice(source, 0, stop)
        ELSE IF stop >= Len(source) THEN ""
        ELSE LineText(Slice(source, stop + 1, Len(source)), line - 1)

\* re.search(r"\b" + name + r"\s*\[\s*(\d+)\s*\]", line), lines 464-466, from
\* offset i: the size of the first match
RECURSIVE SizeInLine(_, _, _)
SizeInLine(name, line, i) ==
    IF i >= Len(line) THEN None
    ELSE LET open == SkipWhile(line, i + Len(name), RegexSpace)
             digits == SkipWhile(line, open + 1, RegexSpace)
             digits_end == SkipWhile(line, digits, DecimalDigits)
             close == SkipWhile(line, digits_end, RegexSpace)
         IN  IF /\ ByteAt(line, i - 1) \notin IdentStart \cup DecimalDigits
                /\ Slice(line, i, i + Len(name)) = name
                /\ ByteAt(line, open) = "["
                /\ digits_end > digits
                /\ ByteAt(line, close) = "]"
             THEN Some(ParseDecimal(Slice(line, digits, digits_end)))
             ELSE SizeInLine(name, line, i + 1)

\* lines 453-470: a symbol without size takes the size written after its
\* name on its source line and becomes an array
ArraySizePass(symbols, source) ==
    [k \in DOMAIN symbols |->
        LET s == symbols[k]
            size == SizeInLine(s.name, LineText(source, s.line), 0)
        IN  IF IsNone(s.array_size) /\ ~IsNone(size)
            THEN [s EXCEPT !.array_size = size, !.kind = "array"]
            ELSE s]

_extract_c_symbols(root_node, file_path) ==
    ArraySizePass(WalkCSymbols(root_node, file_path), root_node.text)

-----------------------------------------------------------------------------
(* Specification SpecDeclarator: analyze of C buffers that declare and     *)
(* subscript arrays                                                        *)

NumberLiteral(text, line, field) == Node("number_literal", text, line, field, << >>)

PrimitiveType(text, line) == Node("primitive_type", text, line, "type", << >>)

\* name[size] as tree-sitter-c parses it in a declaration
ArrayDeclarator(name, size, line) ==
    Node("array_declarator", name \o "[" \o size \o "]", line, "declarator",
         <<Identifier(name, line, "declarator"), Token("[", line),
           NumberLiteral(size, line, "size"), Token("]", line)>>)

\* int arr[10];
PlainDeclaration(line) ==
    Node("declaration", "int arr[10];", line, "",
         <<PrimitiveType("int", line), ArrayDeclarator("arr", "10", line),
           Token(";", line)>>)

\* int buf[4] = {0};
InitializedDeclaration(line) ==
    Node("declaration", "int buf[4] = {0};", line, "",
         <<PrimitiveType("int", line),
           Node("init_declarator", "buf[4] = {0}", line, "declarator",
                <<ArrayDeclarator("buf", "4", line), Token("=", line),
                  Node("initializer_list", "{0}", line, "value",
                       <<Token("{", line), NumberLiteral("0", line, ""),
                         Token("}", line)>>)>>),
           Token(";", line)>>)

\* int a[2], b[2];
TwoDeclarators(line) ==
    Node("declaration", "int a[2], b[2];", line, "",
         <<PrimitiveType("int", line), ArrayDeclarator("a", "2", line),
           Token(",", line), ArrayDeclarator("b", "2", line), Token(";", line)>>)

\* void f(int v[8]);
ParameterDeclaration(line) ==
    Node("declaration", "void f(int v[8]);", line, "",
         <<PrimitiveType("void", line),
           Node("function_declarator", "f(int v[8])", line, "declarator",
                <<Identifier("f", line, "declarator"),
                  Node("parameter_list", "(int v[8])", line, "parameters",
                       <<Token("(", line),
                         Node("parameter_declaration", "int v[8]", line, "",
                              <<PrimitiveType("int", line),
                                ArrayDeclarator("v", "8", line)>>),
                         Token(")", line)>>)>>),
           Token(";", line)>>)

\* use(arr[12]);
SubscriptCall(line) ==
    Node("expression_statement", "use(arr[12]);", line, "",
         <<Node("call_expression", "use(arr[12])", line, "",
                <<Identifier("use", line, "function"),
                  Node("argument_list", "(arr[12])", line, "arguments",
                       <<Token("(", line),
                         Node("subscript_expression", "arr[12]", line, "",
                              <<Identifier("arr", line, "argument"), Token("[", line),
                                NumberLiteral("12", line, "index"), Token("]", line)>>),
                         Token(")", line)>>)>>),
           Token(";", line)>>)

\* // tmp[1] = 0
CommentLine(line) == Node("comment", "// tmp[1] = 0", line, "", << >>)

CStatementKinds == {"plain", "initialized", "two", "parameter", "subscript", "comment"}

CStatement(kind, line) ==
    CASE kind = "plain" -> PlainDeclaration(line)
      [] kind = "initialized" -> InitializedDeclaration(line)
      [] kind = "two" -> TwoDeclarators(line)
      [] kind = "parameter" -> ParameterDeclaration(line)
      [] kind = "subscript" -> SubscriptCall(line)
      [] kind = "comment" -> CommentLine(line)

RECURSIVE JoinLines(_)
JoinLines(statements) ==
    IF statements = << >> THEN ""
    ELSE IF Len(statements) = 1 THEN Head(statements).text
    ELSE Head(statements).text \o "\n" \o JoinLines(Tail(statements))

\* the tree of a C buffer with one statement per line; the root carries the
\* source text
TranslationUnit(kinds) ==
    LET statements == [k \in DOMAIN kinds |-> CStatement(kinds[k], k)]
    IN  Node("translation_unit", JoinLines(statements), 1, "", statements)

DeclaratorFile == "/ws/main.c"

DeclaratorRepoUniverse ==
    {\* int buf[4];
     ArraySymbol("buf", Some("int"), "lib.c", 3, Some(4), FALSE)}

InitDeclarator ==
    /\ current_file = DeclaratorFile
    /\ buffer_tree \in {TranslationUnit(k) : k \in SeqsUpTo(CStatementKinds, MaxStatements)}
    /\ buffer_refs = << >>
    /\ buffer_symbols = << >>
    /\ repo_symbols \in SeqsUpTo(DeclaratorRepoUniverse, MaxRepoSyms)
    /\ diagnostics = << >>
    /\ phase = "input"
    /\ ServerUnused

\* analyze, lines 114-143: parse_unsaved_buffer extracts the symbols and the
\* references of the buffer, then the checkers run
RunDeclarator ==
    /\ phase = "input"
    /\ buffer_symbols' = _extract_c_symbols(buffer_tree, current_file)
    /\ buffer_refs' = extract_references_from_source(buffer_tree, "c")
    /\ diagnostics' = AnalyzeDiagnostics(buffer_refs', buffer_symbols', repo_symbols,
                                         current_file)
    /\ phase' = "done"
    /\ UNCHANGED <<current_file, repo_symbols, buffer_tree>>
    /\ UNCHANGED serverVars

NextDeclarator == RunDeclarator

SpecDeclarator == InitDeclarator /\ [][NextDeclarator]_vars

\* the array declarators of a tree: name, size and line of each
RECURSIVE DeclaratorsIn(_)
DeclaratorsIn(node) ==
    (IF node.type = "array_declarator"
     THEN {[name |-> node.children[1].text,
            size |-> ParseDecimal(node.children[3].text),
            line |-> node.line]}
     ELSE {})
    \cup UNION {DeclaratorsIn(node.children[k]) : k \in DOMAIN node.children}

\* C30: in a C buffer no array_access reference comes from the size of an
\* array declarator, whatever follows the declarator (";", an "=" initializer,
\* a "," before the next declarator, a ")" closing a parameter list), and no
\* SNIPE_ARRAY_BOUNDS diagnostic for index N is reported at the declaration
\* of an array of size N.
C30_DeclaratorNotAccess ==
    phase = "done" =>
        \A d \in DeclaratorsIn(buffer_tree) :
            /\ ~\E r \in Range(buffer_refs) :
                  /\ r.kind = "array_access"
                  /\ r.name = d.name
                  /\ r.line = d.line
                  /\ r.index_value = Some(d.size)
            /\ ~\E x \in Range(diagnostics) :
                  /\ x.code = "SNIPE_ARRAY_BOUNDS"
                  /\ x.line = d.line
                  /\ x.file = current_file

====
